---------------------------- MODULE Spec2Model ----------------------------
(***************************************************************************)
(* A model of cdash-mcp: the CDash transport client (client.py) and the    *)
(* twelve FastMCP tools that render its JSON answers as text (server.py).  *)
(*                                                                         *)
(* Conventions                                                             *)
(*   - an optional value (str | None, int | None) is a sequence of length  *)
(*     0 (None) or 1 (the value);                                          *)
(*   - a JSON object is a function whose domain is the set of keys that    *)
(*     are present; d.get(k, default) is DictGet(d, k, default);           *)
(*   - a text whose length matters (details, log, output) is a sequence of *)
(*     one-character strings;                                              *)
(*   - a rendered text is the sequence of the lines that "\n".join(lines)  *)
(*     joins, each line a record whose field k names the f-string that     *)
(*     produced it and whose other fields are the values it interpolates.  *)
(***************************************************************************)
EXTENDS Integers, Sequences, FiniteSets, TLC

VARIABLES
    session,    \* CDashClient._client: "None" or "open"
    pc,         \* position of the tool call: "idle", "awaiting", "done"
    tool,       \* name of the tool being run
    args,       \* its arguments
    sent,       \* the GET requests the call has issued so far, in order
    replies,    \* the outcomes of those requests that have ended, in order
    fetched,    \* what the last _get returned or raised
    locals,     \* the tool function's locals limit, offset, page after the fetch
    result,     \* what the tool function produced: a text or an exception
    calls,      \* the calls that run side by side, each with its own tool,
                \* args, sent, replies and result
    token,      \* CDashClient.token: None or the configured string
    headers     \* the default headers of the session, sent with every request

vars ==
    <<session, pc, tool, args, sent, replies, fetched, locals, result, calls,
      token, headers>>

-----------------------------------------------------------------------------
(* Bounds of the model *)

\* longest list a paginated payload carries
MaxItems == 5
\* longest list of analyses a dynamic-analysis payload carries
MaxAnalyses == 3
\* longest run of like builds in a dashboard build group
MaxRun == 21
\* how far beyond a budget a truncated text may reach
MaxOver == 2

(* Program constants *)

\* max(1, min(limit, 200))
MaxLimit == 200
\* has_issues or shown < 20
ShownCap == 20
\* len(details) > 200 in get_failing_tests
FailingDetailsBudget == 200
\* len(text) > 500 in get_build_errors
ErrorTextBudget == 500
\* len(details) > 150 in get_build_tests
BuildTestDetailsBudget == 150
\* len(output) > 5000 in get_configure_output
ConfigureOutputBudget == 5000
\* len(output) > 8000 in get_test_details
TestOutputBudget == 8000
\* len(log) > 200 in get_build_update
UpdateLogBudget == 200

-----------------------------------------------------------------------------
(* Python helpers *)

Min(a, b) == IF a <= b THEN a ELSE b
Max(a, b) == IF a >= b THEN a ELSE b

None == <<>>
Some(v) == <<v>>
IsNone(o) == Len(o) = 0
\* truthiness of an optional string: None and "" are both false
TruthyStr(o) == Len(o) = 1 /\ o[1] # ""

EmptyObj == <<>>
DictGet(d, k, default) == IF k \in DOMAIN d THEN d[k] ELSE default

\* the slice as it would be if its end were inclusive
SliceInclusive(items, offset, limit) ==
    SubSeq(items, offset + 1, Min(offset + limit + 1, Len(items)))

\* items[offset : offset + limit] for offset >= 0, limit >= 1
Slice(items, offset, limit) ==
    SubSeq(items, offset + 1, Min(offset + limit, Len(items)))

Whitespace == {" ", "\n", "\t"}

\* str.strip()
Strip(s) ==
    LET keep == {i \in 1..Len(s) : s[i] \notin Whitespace}
    IN  IF keep = {} THEN <<>>
        ELSE LET lo == CHOOSE i \in keep : \A j \in keep : i <= j
                 hi == CHOOSE i \in keep : \A j \in keep : i >= j
             IN  SubSeq(s, lo, hi)

\* the "..." that follows a truncated details, text or log field
Ellipsis == <<".", ".", ".">>
\* the notes that follow a truncated output, each kept as one token
ConfigureNote == <<"\n... (truncated, showing first 5000 chars)">>
TestNote == <<"\n... (truncated, showing first 8000 chars)">>

\* the truncation as it would be if a text of exactly the budget were cut
TruncateAtBudget(text, budget, marker) ==
    IF Len(text) >= budget THEN SubSeq(text, 1, budget) \o marker ELSE text

\* if len(text) > budget: text = text[:budget] + marker
Truncate(text, budget, marker) ==
    IF Len(text) > budget THEN SubSeq(text, 1, budget) \o marker ELSE text


-----------------------------------------------------------------------------
(* client.py: the exceptions *)

CDashErrors ==
    {"CDashError", "CDashAuthError", "CDashNotFoundError", "CDashConnectionError"}

\* isinstance(e, CDashError): what "except CDashError" catches
IsCDashError(exc) == exc \in CDashErrors

Return(v) == [raised |-> FALSE, exc |-> "", about |-> "", value |-> v]
Raise(e, about) == [raised |-> TRUE, exc |-> e, about |-> about, value |-> EmptyObj]

\* _get as it would be if it parsed the body before it looked at the status
GetParsingFirst(client, path, outcome) ==
    IF client = "None" THEN Raise("AssertionError", "Client not initialized")
    ELSE IF outcome.event \in {"ConnectError", "Timeout"}
        THEN Raise("CDashConnectionError", "Cannot connect")
    ELSE IF ~outcome.json
        THEN Raise("JSONDecodeError", path)
    ELSE IF outcome.status \in {401, 403}
        THEN Raise("CDashAuthError", "Authentication failed")
    ELSE IF outcome.status = 404
        THEN Raise("CDashNotFoundError", path)
    ELSE IF outcome.status \notin 200..299
        THEN Raise("HTTPStatusError", path)
    ELSE Return(outcome.body)

(* client.py: CDashClient._get, applied to the outcome of the awaited GET.   *)
(* An outcome is [event, status, json, body]: event is "ConnectError",       *)
(* "Timeout" or "response"; json tells whether the body parses.              *)
_get(client, path, outcome) ==
    IF client = "None" THEN Raise("AssertionError", "Client not initialized")
    ELSE IF outcome.event = "ConnectError"
        THEN Raise("CDashConnectionError", "Cannot connect")
    ELSE IF outcome.event = "Timeout"
        THEN Raise("CDashConnectionError", "timed out")
    ELSE IF outcome.status \in {401, 403}
        THEN Raise("CDashAuthError", "Authentication failed")
    ELSE IF outcome.status = 404
        THEN Raise("CDashNotFoundError", path)
    ELSE IF outcome.status \notin 200..299
        THEN Raise("HTTPStatusError", path)         \* resp.raise_for_status()
    ELSE IF ~outcome.json
        THEN Raise("JSONDecodeError", path)         \* resp.json()
    ELSE Return(outcome.body)

(* client.py: the query parameters each method builds *)

DigitStr == <<"0", "1", "2", "3">>
\* str(n) and int(s) on the few values filtercount takes
Str(n) == DigitStr[n + 1]
ParseInt(s) == CHOOSE n \in 0..3 : DigitStr[n + 1] = s

\* f"field{i}", f"compare{i}", f"value{i}"
FieldKey(i) == <<"field1", "field2", "field3">>[i]
CompareKey(i) == <<"compare1", "compare2", "compare3">>[i]
ValueKey(i) == <<"value1", "value2", "value3">>[i]

\* str.capitalize() on the status filters
Capitalize(s) ==
    CASE s = "passed" -> "Passed"
      [] s = "failed" -> "Failed"
      [] s = "notrun" -> "Notrun"
      [] OTHER -> s

\* params = {"project": project}; if date: params["date"] = date
ProjectDateParams(project, date) ==
    IF TruthyStr(date)
    THEN ("date" :> date[1]) @@ ("project" :> project)
    ELSE ("project" :> project)

\* query_tests as it would be if the test-name triple always had index 2
QueryTestsSecondIndex(project, date, test_name, status_filter) ==
    LET p1 == ProjectDateParams(project, date)
        p2 == IF status_filter = "not_passed"
              THEN ("filtercount" :> "1") @@ ("showfilters" :> "1")
                   @@ ("field1" :> "status") @@ ("compare1" :> "62")
                   @@ ("value1" :> "Passed") @@ p1
              ELSE p1
        p3 == IF TruthyStr(test_name)
              THEN ("filtercount" :> Str(2)) @@ ("showfilters" :> "1")
                   @@ ("filtercombine" :> "and")
                   @@ (FieldKey(2) :> "testname")
                   @@ (CompareKey(2) :> "63")
                   @@ (ValueKey(2) :> test_name[1]) @@ p2
              ELSE p2
    IN  [path |-> "/api/v1/queryTests.php", params |-> p3]

get_dashboard_request(project, date) ==
    [path |-> "/api/v1/index.php", params |-> ProjectDateParams(project, date)]

query_tests_request(project, date, test_name, status_filter) ==
    LET p1 == ProjectDateParams(project, date)
        p2 == IF status_filter = "not_passed"
              THEN ("filtercount" :> "1") @@ ("showfilters" :> "1")
                   @@ ("field1" :> "status") @@ ("compare1" :> "62")
                   @@ ("value1" :> "Passed") @@ p1
              ELSE p1
        filter_idx == ParseInt(DictGet(p2, "filtercount", "0")) + 1
        p3 == IF TruthyStr(test_name)
              THEN ("filtercount" :> Str(filter_idx)) @@ ("showfilters" :> "1")
                   @@ ("filtercombine" :> "and")
                   @@ (FieldKey(filter_idx) :> "testname")
                   @@ (CompareKey(filter_idx) :> "63")
                   @@ (ValueKey(filter_idx) :> test_name[1]) @@ p2
              ELSE p2
    IN  [path |-> "/api/v1/queryTests.php", params |-> p3]

get_build_summary_request(build_id) ==
    [path |-> "/api/v1/buildSummary.php", params |-> ("buildid" :> build_id)]

get_build_errors_request(build_id, warnings) ==
    [path |-> "/api/v1/viewBuildError.php",
     params |-> ("buildid" :> build_id) @@ ("type" :> IF warnings THEN 1 ELSE 0)]

get_build_tests_request(build_id, status_filter) ==
    LET p1 == ("buildid" :> build_id)
        p2 == IF TruthyStr(status_filter)
              THEN ("filtercount" :> "1") @@ ("showfilters" :> "1")
                   @@ ("field1" :> "status") @@ ("compare1" :> "61")
                   @@ ("value1" :> Capitalize(status_filter[1])) @@ p1
              ELSE p1
    IN  [path |-> "/api/v1/viewTest.php", params |-> p2]

get_configure_request(build_id) ==
    [path |-> "/api/v1/viewConfigure.php", params |-> ("buildid" :> build_id)]

\* the GET of _resolve_project_id
resolve_project_id_request(project_name) ==
    [path |-> "/api/v1/index.php", params |-> ("project" :> project_name)]

\* _resolve_project_id, applied to what its _get returned
\* A JSON scalar is [int |-> n] or [str |-> s]; None is JsonNull.
JsonNull == [null |-> TRUE]

\* not project_id
Falsy(v) == v \in {JsonNull, [int |-> 0], [str |-> ""]}

\* int(project_id): the number, the number a string of digits spells, or a
\* ValueError
IntOf(v) ==
    IF "int" \in DOMAIN v THEN Return(v.int)
    ELSE IF v = [str |-> "42"] THEN Return(42)
    ELSE Raise("ValueError", "invalid literal for int()")

\* _resolve_project_id as it would be without its test of the identifier
ResolveUnchecked(project_name, got) ==
    IF got.raised THEN got
    ELSE IntOf(DictGet(got.value, "projectid", [int |-> 0]))

_resolve_project_id(project_name, got) ==
    IF got.raised THEN got
    ELSE LET project_id == DictGet(got.value, "projectid", JsonNull)
         IN  IF Falsy(project_id)
             THEN Raise("CDashNotFoundError", project_name)
             ELSE IntOf(project_id)

get_test_details_request(build_test_id) ==
    [path |-> "/api/v1/testDetails.php", params |-> ("buildtestid" :> build_test_id)]

\* the second GET of get_test_summary, once the project id is known
get_test_summary_request(project_id, test_name, date) ==
    [path |-> "/api/v1/testSummary.php",
     params |-> IF TruthyStr(date)
                THEN ("date" :> date[1]) @@ ("project" :> project_id)
                     @@ ("name" :> test_name)
                ELSE ("project" :> project_id) @@ ("name" :> test_name)]

get_build_update_request(build_id) ==
    [path |-> "/api/v1/viewUpdate.php", params |-> ("buildid" :> build_id)]

get_project_overview_request(project, date) ==
    [path |-> "/api/v1/overview.php", params |-> ProjectDateParams(project, date)]

\* CDashClient.get_coverage_comparison(self, project, date): no build id
get_coverage_comparison_request(project, date) ==
    [path |-> "/api/v1/compareCoverage.php",
     params |-> ProjectDateParams(project, date)]

get_dynamic_analysis_request(build_id) ==
    [path |-> "/api/v1/viewDynamicAnalysis.php",
     params |-> ("buildid" :> build_id)]

\* the positional parameters each client method declares after self
ClientSignature(method) ==
    CASE method = "get_dashboard" -> <<"project", "date">>
      [] method = "query_tests" ->
            <<"project", "date", "test_name", "status_filter">>
      [] method = "get_build_summary" -> <<"build_id">>
      [] method = "get_build_errors" -> <<"build_id", "warnings">>
      [] method = "get_build_tests" -> <<"build_id", "status_filter">>
      [] method = "get_configure" -> <<"build_id">>
      [] method = "get_test_details" -> <<"build_test_id">>
      [] method = "get_test_summary" -> <<"project", "test_name", "date">>
      [] method = "get_build_update" -> <<"build_id">>
      [] method = "get_project_overview" -> <<"project", "date">>
      [] method = "get_coverage_comparison" -> <<"project", "date">>
      [] method = "get_dynamic_analysis" -> <<"build_id">>


-----------------------------------------------------------------------------
(* server.py: what every tool body returns in this model: the lines of the   *)
(* text and, for a paginated tool, the locals of its page window.            *)

Blank == [k |-> "blank"]

\* a body that takes no page
Plain(lines) ==
    [lines |-> lines, limit |-> 0, offset |-> 0, sliced |-> FALSE, page |-> <<>>]

\* the clamp as it would be without its lower end
ClampLimitNoFloor(limit) == Min(limit, MaxLimit)

\* limit = max(1, min(limit, 200))
ClampLimit(limit) == Max(1, Min(limit, MaxLimit))
\* offset = max(0, offset)
\* the clamp as it would be if the offset were kept from one call to the
\* next, each finished call moving it on by one
ClampOffsetCarried(offset) ==
    Max(Cardinality({c \in DOMAIN calls : calls[c].pc = "done"}), offset)

ClampOffset(offset) == Max(0, offset)

\* the trailer as it would be if it named the limit as the next offset
TrailerFromStart(total, offset, limit, page) ==
    LET remaining == total - offset - Len(page)
    IN  IF remaining > 0
        THEN <<[k |-> "trailer", remaining |-> remaining, next |-> limit]>>
        ELSE <<>>

\* the trailer as it would be if it named the offset one past the next page
TrailerSkipping(total, offset, limit, page) ==
    LET remaining == total - offset - Len(page)
    IN  IF remaining > 0
        THEN <<[k |-> "trailer", remaining |-> remaining,
                next |-> offset + limit + 1]>>
        ELSE <<>>

\* "... {remaining} more (use offset={offset + limit} to see next page)"
Trailer(total, offset, limit, page) ==
    LET remaining == total - offset - Len(page)
    IN  IF remaining > 0
        THEN <<[k |-> "trailer", remaining |-> remaining, next |-> offset + limit]>>
        ELSE <<>>

\* the lines of "for x in xs: ...", the loop body being named by its kind
RECURSIVE FlatMap(_, _)

\* the cases as they would be if the empty page were tested first
PageCaseByPage(items, page) ==
    IF page = <<>> THEN "norange"
    ELSE IF items = <<>> THEN "none"
    ELSE "range"

\* which of the three cases of a paginated tool applies
PageCase(items, page) ==
    IF items = <<>> THEN "none"
    ELSE IF page = <<>> THEN "norange"
    ELSE "range"

(* The shape the paginated tools share: an empty list, a page past the end,  *)
(* or a range header, a blank line, the entries of the page and the trailer. *)
PagedBody(head, items, limit0, offset0, entry) ==
    LET limit == ClampLimit(limit0)
        offset == ClampOffset(offset0)
        total == Len(items)
        page == Slice(items, offset, limit)
    IN  IF PageCase(items, page) = "none"
        THEN [lines |-> head \o <<[k |-> "none"]>>, limit |-> limit,
              offset |-> offset, sliced |-> FALSE, page |-> <<>>]
        ELSE IF PageCase(items, page) = "norange"
        THEN [lines |-> head \o <<[k |-> "norange", total |-> total,
                                   offset |-> offset]>>,
              limit |-> limit, offset |-> offset, sliced |-> TRUE, page |-> page]
        ELSE [lines |-> head
                        \o <<[k |-> "range", total |-> total, lo |-> offset + 1,
                              hi |-> offset + Len(page)]>>
                        \o <<Blank>>
                        \o FlatMap(entry, page)
                        \o Trailer(total, offset, limit, page),
              limit |-> limit, offset |-> offset, sliced |-> TRUE, page |-> page]

\* {"Passed": "+", "Failed": "!", "Not Run": "-"}.get(status, "?")
StatusIcon(status) ==
    CASE status = "Passed" -> "+"
      [] status = "Failed" -> "!"
      [] status = "Not Run" -> "-"
      [] OTHER -> "?"

(* get_failing_tests *)

FailingTestEntry(t) ==
    LET details == DictGet(t, "details", <<>>)
    IN  <<[k |-> "entry", name |-> DictGet(t, "testname", "?"),
           status |-> DictGet(t, "status", "?")],
          [k |-> "build", name |-> DictGet(t, "buildName", "?"),
           site |-> DictGet(t, "site", "?")]>>
        \o (IF details # <<>>
            THEN <<[k |-> "details",
                    text |-> Truncate(details, FailingDetailsBudget, Ellipsis)]>>
            ELSE <<>>)
        \o <<Blank>>

get_failing_tests(a, data) ==
    PagedBody(<<[k |-> "title", what |-> "Failing Tests", of |-> a.project], Blank>>,
              DictGet(data, "builds", <<>>), a.limit, a.offset,
              "FailingTestEntry")

(* get_build_errors *)

BuildErrorEntry(err) ==
    LET source_file == DictGet(err, "sourcefile", "")
        source_line == DictGet(err, "sourceline", "")
        text == Strip(DictGet(err, "text", <<>>))
        precontext == DictGet(err, "precontext", <<>>)
        postcontext == DictGet(err, "postcontext", <<>>)
    IN  <<[k |-> "entry", name |-> IF source_file # "" THEN source_file
                                   ELSE "(no source location)",
           line |-> IF source_file # "" THEN source_line ELSE ""]>>
        \o (IF precontext # <<>> THEN <<[k |-> "pre", text |-> precontext]>>
            ELSE <<>>)
        \o (IF text # <<>>
            THEN <<[k |-> "text",
                    text |-> Truncate(text, ErrorTextBudget, Ellipsis)]>>
            ELSE <<>>)
        \o (IF postcontext # <<>> THEN <<[k |-> "post", text |-> postcontext]>>
            ELSE <<>>)
        \o <<Blank>>

get_build_errors(a, data) ==
    PagedBody(<<[k |-> "title",
                 what |-> IF a.warnings THEN "Build Warnings" ELSE "Build Errors",
                 of |-> a.build_id], Blank>>,
              DictGet(data, "errors", <<>>), a.limit, a.offset,
              "BuildErrorEntry")

(* get_build_tests *)

BuildTestEntry(t) ==
    LET status == DictGet(t, "status", "?")
        details == DictGet(t, "details", <<>>)
    IN  <<[k |-> "entry", name |-> DictGet(t, "name", "?"),
           icon |-> StatusIcon(status), status |-> status,
           buildtestid |-> DictGet(t, "buildtestid", ""),
           text |-> Truncate(details, BuildTestDetailsBudget, Ellipsis)]>>

get_build_tests(a, data) ==
    PagedBody(<<[k |-> "title", what |-> "Tests for build", of |-> a.build_id,
                 filter |-> IF TruthyStr(a.status_filter)
                            THEN a.status_filter[1] ELSE ""], Blank>>,
              DictGet(data, "tests", <<>>), a.limit, a.offset,
              "BuildTestEntry")

(* get_test_summary *)

TestSummaryEntry(b) ==
    LET status == DictGet(b, "status", "?")
        update == DictGet(b, "update", EmptyObj)
    IN  <<[k |-> "entry", name |-> DictGet(b, "buildName", "?"),
           icon |-> StatusIcon(status), status |-> status,
           site |-> DictGet(b, "site", "?"),
           rev |-> DictGet(update, "revision", "")]>>

get_test_summary(a, data) ==
    LET num_failed == DictGet(data, "numfailed", 0)
        num_total == DictGet(data, "numtotal", 0)
    IN  PagedBody(<<[k |-> "title", what |-> "Test Summary", of |-> a.test_name[1]],
                    Blank,
                    [k |-> "results", passed |-> num_total - num_failed,
                     total |-> num_total], Blank>>,
                  DictGet(data, "builds", <<>>), a.limit, a.offset,
                  "TestSummaryEntry")

(* get_coverage_comparison *)

\* re.sub(r"<[^>]+>", "", str(cell)).strip(): a cell is its text and the
\* markup CDash wraps around it
StripTags(cell) == cell.text

CoverageEntry(row) ==
    IF Len(row) >= 4
    THEN <<[k |-> "entry", name |-> StripTags(row[1]), status |-> StripTags(row[2]),
            pct |-> StripTags(row[3]), untested |-> StripTags(row[4])]>>
    ELSE <<[k |-> "rawrow", row |-> row]>>

get_coverage_comparison(a, data) ==
    LET total_records == DictGet(data, "iTotalRecords", 0)
        total_display == DictGet(data, "iTotalDisplayRecords", 0)
    IN  PagedBody(<<[k |-> "title", what |-> "Coverage Comparison", of |-> a.project],
                    Blank, [k |-> "totalfiles", total |-> total_records]>>
                  \o (IF total_display # total_records
                      THEN <<[k |-> "displayed", total |-> total_display]>>
                      ELSE <<>>)
                  \o <<Blank>>,
                  DictGet(data, "aaData", <<>>), a.limit, a.offset,
                  "CoverageEntry")


(* get_dynamic_analysis *)

\* A defect count is [conv, val]: conv tells whether int(d) succeeds.
\* try: sum(int(d) for d in defects) except (ValueError, TypeError): 0
RECURSIVE SumDefects(_)
SumDefects(defects) ==
    IF defects = <<>> THEN 0 ELSE Head(defects).val + SumDefects(Tail(defects))

TotalDefects(a) ==
    LET defects == DictGet(a, "defects", <<>>)
    IN  IF \E i \in DOMAIN defects : ~defects[i].conv THEN 0
        ELSE SumDefects(defects)

\* if total_defects > 0: with_defects.append(...) else: clean += 1
HasDefects(a) == TotalDefects(a) > 0

\* the count as it would be if an analysis whose defects do not convert
\* were not counted as clean
IsCleanConverted(a) ==
    /\ \A i \in DOMAIN DictGet(a, "defects", <<>>) : DictGet(a, "defects", <<>>)[i].conv
    /\ ~(TotalDefects(a) > 0)

IsClean(a) == ~(TotalDefects(a) > 0)

DynamicAnalysisEntry(a) ==
    <<[k |-> "entry", name |-> DictGet(a, "name", "?"),
       status |-> DictGet(a, "status", "?"), defects |-> TotalDefects(a)]>>

get_dynamic_analysis(a, data) ==
    LET limit == ClampLimit(a.limit)
        offset == ClampOffset(a.offset)
        build == DictGet(data, "build", EmptyObj)
        defect_types == DictGet(data, "defecttypes", <<>>)
        analyses == DictGet(data, "dynamicanalyses", <<>>)
        head == <<[k |-> "title", what |-> "Dynamic Analysis", of |-> a.build_id],
                  Blank>>
                \o (IF build # EmptyObj
                    THEN <<[k |-> "buildinfo",
                            name |-> DictGet(build, "buildname", "?")], Blank>>
                    ELSE <<>>)
                \o (IF defect_types # <<>>
                    THEN <<[k |-> "defecttypes", n |-> Len(defect_types)], Blank>>
                    ELSE <<>>)
        with_defects == SelectSeq(analyses, HasDefects)
        clean == Len(SelectSeq(analyses, IsClean))
        total == Len(with_defects)
        page == Slice(with_defects, offset, limit)
    IN  IF analyses = <<>>
        THEN [lines |-> head \o <<[k |-> "none"]>>, limit |-> limit,
              offset |-> offset, sliced |-> FALSE, page |-> <<>>]
        ELSE [lines |->
                head \o <<[k |-> "results", total |-> Len(analyses)], Blank>>
                \o (IF page = <<>> /\ total > 0
                    THEN <<[k |-> "norange", total |-> total, offset |-> offset]>>
                    ELSE IF page # <<>>
                    THEN <<[k |-> "range", total |-> total, lo |-> offset + 1,
                            hi |-> offset + Len(page)], Blank>>
                         \o FlatMap("DynamicAnalysisEntry", page)
                         \o Trailer(total, offset, limit, page)
                    ELSE <<>>)
                \o (IF clean # 0 THEN <<[k |-> "clean", n |-> clean]>> ELSE <<>>),
              limit |-> limit, offset |-> offset, sliced |-> TRUE, page |-> page]

(* get_dashboard *)

\* build.get(section, {}).get(counter, 0)
Counter(build, section, counter) ==
    DictGet(DictGet(build, section, EmptyObj), counter, 0)

\* the test as it would be if warnings were issues too
HasIssuesOrWarnings(build) ==
    \/ Counter(build, "configure", "error") # 0
    \/ Counter(build, "compilation", "error") # 0
    \/ Counter(build, "compilation", "warning") # 0
    \/ Counter(build, "test", "fail") # 0
    \/ Counter(build, "test", "notrun") # 0

\* has_issues = configure_errors or compile_errors or test_fail or test_notrun
HasIssues(build) ==
    \/ Counter(build, "configure", "error") # 0
    \/ Counter(build, "compilation", "error") # 0
    \/ Counter(build, "test", "fail") # 0
    \/ Counter(build, "test", "notrun") # 0

\* if value: status_parts.append(f"{label}={value}")
StatusPart(label, value) ==
    IF value # 0 THEN <<[label |-> label, value |-> value]>> ELSE <<>>

StatusParts(build) ==
    StatusPart("configure_err", Counter(build, "configure", "error"))
    \o StatusPart("compile_err", Counter(build, "compilation", "error"))
    \o StatusPart("warnings", Counter(build, "compilation", "warning"))
    \o StatusPart("test_fail", Counter(build, "test", "fail"))
    \o StatusPart("test_notrun", Counter(build, "test", "notrun"))
    \o StatusPart("test_pass", Counter(build, "test", "pass"))

\* f"- {marker}[id={build_id}] {name} @ {site}: {status}"
BuildLine(build) ==
    [k |-> "build", marker |-> IF HasIssues(build) THEN "!!!" ELSE "",
     id |-> DictGet(build, "id", "?"), name |-> DictGet(build, "buildname", "?"),
     site |-> DictGet(build, "site", "?"),
     ok |-> StatusParts(build) = <<>>, parts |-> StatusParts(build)]

\* the test as it would be if the allowance were of one build more
BuildIsShownThroughCap(build, shown) == HasIssues(build) \/ shown <= ShownCap

\* the test as it would be if only the allowance decided
BuildIsShownUnderCap(build, shown) == shown < ShownCap

\* if has_issues or shown < 20
BuildIsShown(build, shown) == HasIssues(build) \/ shown < ShownCap

RECURSIVE BuildLoop(_, _, _)
\* for build in builds: ...; gives the lines appended and the final shown
BuildLoop(builds, shown, lines) ==
    IF builds = <<>> THEN [lines |-> lines, shown |-> shown]
    ELSE IF BuildIsShown(Head(builds), shown)
    THEN BuildLoop(Tail(builds), shown + 1, Append(lines, BuildLine(Head(builds))))
    ELSE BuildLoop(Tail(builds), shown, lines)

\* the summary as it would be if one build left out were not worth a line
MoreLineBeyondOne(builds, shown) ==
    IF shown + 1 < Len(builds)
    THEN <<[k |-> "more", n |-> Len(builds) - shown]>>
    ELSE <<>>

\* if shown < len(builds): lines.append(f"  ... and {len(builds) - shown} more builds")
MoreLine(builds, shown) ==
    IF shown < Len(builds)
    THEN <<[k |-> "more", n |-> Len(builds) - shown]>>
    ELSE <<>>

GroupLines(group) ==
    LET builds == DictGet(group, "builds", <<>>)
        loop == BuildLoop(builds, 0, <<>>)
    IN  <<[k |-> "group", name |-> DictGet(group, "name", "Unknown"),
           builds |-> Len(builds)], Blank>>
        \o loop.lines
        \o MoreLine(builds, loop.shown)
        \o <<Blank>>

get_dashboard(a, data) ==
    LET head == <<[k |-> "title", what |-> "Dashboard",
                   of |-> DictGet(data, "title", a.project),
                   date |-> DictGet(data, "datetime",
                                    IF TruthyStr(a.date) THEN a.date[1]
                                    ELSE "today")], Blank>>
        build_groups == DictGet(data, "buildgroups", <<>>)
    IN  IF build_groups = <<>>
        THEN Plain(head \o <<[k |-> "none"]>>)
        ELSE Plain(head \o FlatMap("GroupLines", build_groups))


(* get_build_details *)

get_build_details(a, data) ==
    LET build == DictGet(data, "build", EmptyObj)
        configure == DictGet(data, "configure", EmptyObj)
        test == DictGet(data, "test", EmptyObj)
        prev == DictGet(data, "previousbuild", EmptyObj)
        update == DictGet(data, "update", EmptyObj)
    IN  Plain(
          <<[k |-> "title", what |-> "Build", of |-> DictGet(build, "name", "?")],
            [k |-> "site", site |-> DictGet(build, "site", "?")],
            [k |-> "buildid", id |-> a.build_id], Blank>>
          \o (IF configure # EmptyObj
              THEN <<[k |-> "configure",
                      pass |-> DictGet(configure, "nerrors", 0) = 0,
                      errors |-> DictGet(configure, "nerrors", 0),
                      warnings |-> DictGet(configure, "nwarnings", 0)], Blank>>
              ELSE <<>>)
          \o (IF test # EmptyObj
              THEN <<[k |-> "tests", passed |-> DictGet(test, "pass", 0),
                      failed |-> DictGet(test, "fail", 0),
                      notrun |-> DictGet(test, "notrun", 0)], Blank>>
              ELSE <<>>)
          \o (IF prev # EmptyObj /\ DictGet(prev, "id", 0) # 0
              THEN <<[k |-> "previous", id |-> prev["id"]], Blank>>
              ELSE <<>>)
          \o (IF update # EmptyObj /\ DictGet(update, "files", 0) # 0
              THEN <<[k |-> "changes", files |-> update["files"]], Blank>>
              ELSE <<>>))

(* get_configure_output *)

ConfigureEntry(conf) ==
    LET command == DictGet(conf, "command", <<>>)
        output == DictGet(conf, "output", <<>>)
        status == DictGet(conf, "status", "?")
    IN  <<[k |-> "status", pass |-> status = "0", status |-> status], Blank>>
        \o (IF command # <<>>
            THEN <<[k |-> "commandlabel"], [k |-> "command", text |-> command],
                   Blank>>
            ELSE <<>>)
        \o (IF output # <<>>
            THEN <<[k |-> "outputlabel"],
                   [k |-> "output",
                    text |-> Truncate(output, ConfigureOutputBudget,
                                      ConfigureNote)]>>
            ELSE <<>>)

get_configure_output(a, data) ==
    LET head == <<[k |-> "title", what |-> "Configure Output", of |-> a.build_id],
                  Blank>>
        configures == DictGet(data, "configures", <<>>)
    IN  IF configures = <<>>
        THEN Plain(head \o <<[k |-> "none"]>>)
        ELSE Plain(head \o FlatMap("ConfigureEntry", configures))

(* get_test_details *)

MeasurementLine(m) ==
    <<[k |-> "measurement", name |-> DictGet(m, "name", "?"),
       value |-> DictGet(m, "value", "?")]>>

get_test_details(a, data) ==
    LET test == DictGet(data, "test", EmptyObj)
        command == DictGet(test, "command", <<>>)
        output == DictGet(test, "output", <<>>)
        measurements == DictGet(test, "measurements", <<>>)
    IN  Plain(
          <<[k |-> "title", what |-> "Test Details",
             of |-> DictGet(test, "test", DictGet(test, "name", "?"))],
            [k |-> "status", status |-> DictGet(test, "status", "?")],
            [k |-> "buildtestid", id |-> a.build_test_id], Blank>>
          \o (IF command # <<>>
              THEN <<[k |-> "commandlabel"], [k |-> "command", text |-> command],
                     Blank>>
              ELSE <<>>)
          \o (IF measurements # <<>>
              THEN <<[k |-> "measurements"]>>
                   \o FlatMap("MeasurementLine", measurements) \o <<Blank>>
              ELSE <<>>)
          \o (IF output # <<>>
              THEN <<[k |-> "outputlabel"],
                     [k |-> "output",
                      text |-> Truncate(output, TestOutputBudget, TestNote)]>>
              ELSE <<>>))

(* get_build_update *)

UpdateFileLines(f) ==
    LET log == Strip(DictGet(f, "log", <<>>))
    IN  <<[k |-> "file", name |-> DictGet(f, "filename", "?"),
           author |-> DictGet(f, "author", "?"),
           rev |-> DictGet(f, "revision", "")]>>
        \o (IF log # <<>>
            THEN <<[k |-> "log", text |-> Truncate(log, UpdateLogBudget, Ellipsis)]>>
            ELSE <<>>)

UpdateDirectoryLines(d) == FlatMap("UpdateFileLines", DictGet(d, "files", <<>>))

UpdateGroupLines(group) ==
    LET directories == DictGet(group, "directories", <<>>)
    IN  IF directories = <<>> THEN <<>>
        ELSE <<[k |-> "updategroup",
                name |-> DictGet(group, "description", "Files")], Blank>>
             \o FlatMap("UpdateDirectoryLines", directories)
             \o <<Blank>>

get_build_update(a, data) ==
    LET update == DictGet(data, "update", EmptyObj)
        update_groups == DictGet(data, "updategroups", <<>>)
        head == <<[k |-> "title", what |-> "Source Updates", of |-> a.build_id],
                  Blank>>
                \o (IF update # EmptyObj
                    THEN (IF DictGet(update, "revision", "") # ""
                          THEN <<[k |-> "revision", rev |-> update["revision"]]>>
                          ELSE <<>>)
                         \o <<Blank>>
                    ELSE <<>>)
        body == FlatMap("UpdateGroupLines", update_groups)
        total_files == Len(SelectSeq(body, LAMBDA l : l.k = "file"))
    IN  IF update_groups = <<>>
        THEN Plain(head \o <<[k |-> "none"]>>)
        ELSE Plain(head \o body
                   \o (IF total_files = 0 THEN <<[k |-> "none"]>> ELSE <<>>))

(* get_project_overview *)

NameLine(x) == <<[k |-> "name", name |-> DictGet(x, "name", "?")]>>

\* a "## heading" with one "- name" line per element, when there is any
Section(heading, xs) ==
    IF xs = <<>> THEN <<>>
    ELSE <<[k |-> "section", name |-> heading]>> \o FlatMap("NameLine", xs)
         \o <<Blank>>

get_project_overview(a, data) ==
    Plain(
      <<[k |-> "title", what |-> "Overview",
         of |-> DictGet(data, "title", a.project)], Blank>>
      \o (IF DictGet(data, "hasSubProjects", FALSE)
          THEN <<[k |-> "subprojects"], Blank>> ELSE <<>>)
      \o (IF DictGet(data, "groups", <<>>) # <<>>
          THEN <<[k |-> "groups", n |-> Len(data["groups"])], Blank>> ELSE <<>>)
      \o Section("Coverage", DictGet(data, "coverages", <<>>))
      \o Section("Dynamic Analysis", DictGet(data, "dynamicanalyses", <<>>))
      \o Section("Static Analysis", DictGet(data, "staticanalyses", <<>>))
      \o Section("Measurements", DictGet(data, "measurements", <<>>)))


\* the body of each loop over a list of the answer
LoopBody(kind, x) ==
    CASE kind = "FailingTestEntry" -> FailingTestEntry(x)
      [] kind = "BuildErrorEntry" -> BuildErrorEntry(x)
      [] kind = "BuildTestEntry" -> BuildTestEntry(x)
      [] kind = "TestSummaryEntry" -> TestSummaryEntry(x)
      [] kind = "CoverageEntry" -> CoverageEntry(x)
      [] kind = "DynamicAnalysisEntry" -> DynamicAnalysisEntry(x)
      [] kind = "GroupLines" -> GroupLines(x)
      [] kind = "ConfigureEntry" -> ConfigureEntry(x)
      [] kind = "MeasurementLine" -> MeasurementLine(x)
      [] kind = "UpdateFileLines" -> UpdateFileLines(x)
      [] kind = "UpdateDirectoryLines" -> UpdateDirectoryLines(x)
      [] kind = "UpdateGroupLines" -> UpdateGroupLines(x)
      [] kind = "NameLine" -> NameLine(x)

FlatMap(kind, xs) ==
    IF xs = <<>> THEN <<>>
    ELSE LoopBody(kind, Head(xs)) \o FlatMap(kind, Tail(xs))

-----------------------------------------------------------------------------
(* server.py: the tool boundary *)

Tools ==
    {"get_dashboard", "get_failing_tests", "get_build_details",
     "get_build_errors", "get_build_tests", "get_configure_output",
     "get_test_details", "get_test_summary", "get_build_update",
     "get_project_overview", "get_coverage_comparison", "get_dynamic_analysis"}

PaginatedTools ==
    {"get_failing_tests", "get_build_errors", "get_build_tests",
     "get_test_summary", "get_coverage_comparison", "get_dynamic_analysis"}

(* The call each tool makes on the client: the method, how many arguments it *)
(* passes by position and which by keyword.                                  *)
CallSite(t) ==
    CASE t = "get_dashboard" -> [method |-> "get_dashboard", npos |-> 2, kw |-> {}]
      [] t = "get_failing_tests" -> [method |-> "query_tests", npos |-> 3, kw |-> {}]
      [] t = "get_build_details" ->
            [method |-> "get_build_summary", npos |-> 1, kw |-> {}]
      [] t = "get_build_errors" ->
            [method |-> "get_build_errors", npos |-> 1, kw |-> {"warnings"}]
      [] t = "get_build_tests" -> [method |-> "get_build_tests", npos |-> 2, kw |-> {}]
      [] t = "get_configure_output" ->
            [method |-> "get_configure", npos |-> 1, kw |-> {}]
      [] t = "get_test_details" ->
            [method |-> "get_test_details", npos |-> 1, kw |-> {}]
      [] t = "get_test_summary" ->
            [method |-> "get_test_summary", npos |-> 3, kw |-> {}]
      [] t = "get_build_update" ->
            [method |-> "get_build_update", npos |-> 1, kw |-> {}]
      [] t = "get_project_overview" ->
            [method |-> "get_project_overview", npos |-> 2, kw |-> {}]
      [] t = "get_coverage_comparison" ->
            [method |-> "get_coverage_comparison", npos |-> 3, kw |-> {}]
      [] t = "get_dynamic_analysis" ->
            [method |-> "get_dynamic_analysis", npos |-> 1, kw |-> {}]

\* Python binds the call: too many positional arguments, or a keyword the
\* method does not declare, is a TypeError raised before the method runs
BindsOk(t) ==
    LET c == CallSite(t)
        sig == ClientSignature(c.method)
    IN  /\ c.npos <= Len(sig)
        /\ c.kw \subseteq {sig[i] : i \in (c.npos + 1)..Len(sig)}

\* the first GET the tool's client method issues
FirstRequest(t, a) ==
    CASE t = "get_dashboard" -> get_dashboard_request(a.project, a.date)
      [] t = "get_failing_tests" ->
            query_tests_request(a.project, a.date, a.test_name, "not_passed")
      [] t = "get_build_details" -> get_build_summary_request(a.build_id)
      [] t = "get_build_errors" -> get_build_errors_request(a.build_id, a.warnings)
      [] t = "get_build_tests" ->
            get_build_tests_request(a.build_id, a.status_filter)
      [] t = "get_configure_output" -> get_configure_request(a.build_id)
      [] t = "get_test_details" -> get_test_details_request(a.build_test_id)
      [] t = "get_test_summary" -> resolve_project_id_request(a.project)
      [] t = "get_build_update" -> get_build_update_request(a.build_id)
      [] t = "get_project_overview" ->
            get_project_overview_request(a.project, a.date)
      [] t = "get_coverage_comparison" ->
            get_coverage_comparison_request(a.project, a.date)
      [] t = "get_dynamic_analysis" -> get_dynamic_analysis_request(a.build_id)

\* the tool function from the line after its try/except to its return
ToolBody(t, a, data) ==
    CASE t = "get_dashboard" -> get_dashboard(a, data)
      [] t = "get_failing_tests" -> get_failing_tests(a, data)
      [] t = "get_build_details" -> get_build_details(a, data)
      [] t = "get_build_errors" -> get_build_errors(a, data)
      [] t = "get_build_tests" -> get_build_tests(a, data)
      [] t = "get_configure_output" -> get_configure_output(a, data)
      [] t = "get_test_details" -> get_test_details(a, data)
      [] t = "get_test_summary" -> get_test_summary(a, data)
      [] t = "get_build_update" -> get_build_update(a, data)
      [] t = "get_project_overview" -> get_project_overview(a, data)
      [] t = "get_coverage_comparison" -> get_coverage_comparison(a, data)
      [] t = "get_dynamic_analysis" -> get_dynamic_analysis(a, data)

NoResult == [kind |-> "none", exc |-> "", lines |-> <<>>]
TextResult(lines) == [kind |-> "text", exc |-> "", lines |-> lines]
RaisedResult(exc) == [kind |-> "raised", exc |-> exc, lines |-> <<>>]

NoLocals == [limit |-> 0, offset |-> 0, sliced |-> FALSE, page |-> <<>>]

\* the boundary as it would be if it caught every exception
ToolBoundaryCatchAll(e) ==
    [kind |-> "text", exc |-> e.exc, lines |-> <<[k |-> "error", msg |-> e.about]>>]

\* except CDashError as e: return f"Error: {e}"; any other exception leaves
\* the tool function
ToolBoundary(e) ==
    IF IsCDashError(e.exc)
    THEN [kind |-> "text", exc |-> e.exc,
          lines |-> <<[k |-> "error", msg |-> e.about]>>]
    ELSE RaisedResult(e.exc)

\* the tool function from the return of its client method to its own end
ToolFinish(t, a, got) ==
    IF got.raised
    THEN [result |-> ToolBoundary(got), locals |-> NoLocals]
    ELSE LET b == ToolBody(t, a, got.value)
         IN  [result |-> TextResult(b.lines),
              locals |-> [limit |-> b.limit, offset |-> b.offset,
                          sliced |-> b.sliced, page |-> b.page]]


-----------------------------------------------------------------------------
(* The inputs: what a caller may pass and what the upstream may answer *)

DefaultArgs ==
    [project |-> "PublicDashboard", date |-> None, test_name |-> None,
     status_filter |-> None, build_id |-> 7, opt_build_id |-> None,
     build_test_id |-> 9, warnings |-> FALSE, limit |-> 50, offset |-> 0]

\* a call that has not been made
IdleCall ==
    [pc |-> "idle", tool |-> "", args |-> DefaultArgs, sent |-> <<>>,
     replies |-> <<>>, result |-> NoResult, met |-> FALSE]

\* the calls of the server that serves two at a time
CallIds == {1, 2}
NoCalls == [c \in CallIds |-> IdleCall]

Dates == {None, Some("2025-01-15")}
LimitInputs == (-1..3) \cup {MaxLimit - 1, MaxLimit, MaxLimit + 1}
OffsetInputs == -1..(MaxItems + 1)

Windows(base) ==
    {[base EXCEPT !.limit = l, !.offset = o] : l \in LimitInputs, o \in OffsetInputs}

\* the arguments the model passes to each tool; opt_build_id is the build_id
\* of get_coverage_comparison, which is int | None
ArgsOf(t) ==
    CASE t \in {"get_dashboard", "get_project_overview"} ->
            {[DefaultArgs EXCEPT !.date = d] : d \in Dates}
      [] t = "get_failing_tests" ->
            UNION {Windows([DefaultArgs EXCEPT !.date = d, !.test_name = n]) :
                   d \in Dates, n \in {None, Some("smoke")}}
      [] t = "get_build_errors" ->
            UNION {Windows([DefaultArgs EXCEPT !.warnings = w]) : w \in BOOLEAN}
      [] t = "get_build_tests" ->
            UNION {Windows([DefaultArgs EXCEPT !.status_filter = f]) :
                   f \in {None, Some("passed"), Some("notrun")}}
      [] t = "get_test_summary" ->
            UNION {Windows([DefaultArgs EXCEPT !.date = d, !.test_name = Some("smoke")]) :
                   d \in Dates}
      [] t = "get_coverage_comparison" ->
            UNION {Windows([DefaultArgs EXCEPT !.date = d, !.opt_build_id = b]) :
                   d \in Dates, b \in {None, Some(7)}}
      [] t = "get_dynamic_analysis" -> Windows(DefaultArgs)
      [] OTHER -> {DefaultArgs}

\* a short text, present on the odd items only
ShortText(i) == IF i % 2 = 1 THEN <<"d", "e", "t">> ELSE <<>>

StatusOf(i) == <<"Passed", "Failed", "Not Run", "Unknown">>[(i % 4) + 1]

\* the i-th element of the list a tool paginates; its name is its position
ItemOf(t, i) ==
    CASE t = "get_failing_tests" ->
            ("testname" :> ToString(i)) @@ ("status" :> "Failed")
            @@ ("details" :> ShortText(i))
      [] t = "get_build_errors" ->
            ("sourcefile" :> ToString(i)) @@ ("text" :> ShortText(i))
      [] t = "get_build_tests" ->
            ("name" :> ToString(i)) @@ ("status" :> StatusOf(i))
            @@ ("details" :> ShortText(i))
      [] t = "get_test_summary" ->
            ("buildName" :> ToString(i)) @@ ("status" :> StatusOf(i))
      [] t = "get_coverage_comparison" ->
            [c \in 1..4 |-> [tags |-> TRUE,
                             text |-> IF c = 1 THEN ToString(i) ELSE "x"]]

ListKey(t) ==
    CASE t = "get_failing_tests" -> "builds"
      [] t = "get_build_errors" -> "errors"
      [] t = "get_build_tests" -> "tests"
      [] t = "get_test_summary" -> "builds"
      [] t = "get_coverage_comparison" -> "aaData"

ListPayloads(t) ==
    {ListKey(t) :> [i \in 1..n |-> ItemOf(t, i)] : n \in 0..MaxItems}

\* an analysis by kind: with defects, clean, or with a count int() rejects
AnalysisOf(kind, i) ==
    ("name" :> ToString(i)) @@ ("status" :> "Failed")
    @@ ("defects" :>
            CASE kind = "defect" -> <<[conv |-> TRUE, val |-> 1],
                                      [conv |-> TRUE, val |-> 2]>>
              [] kind = "clean" -> <<[conv |-> TRUE, val |-> 0]>>
              [] kind = "bad" -> <<[conv |-> TRUE, val |-> 3],
                                   [conv |-> FALSE, val |-> 0]>>)

AnalysisKinds == {"defect", "clean", "bad"}

AnalysisPayloads ==
    {"dynamicanalyses" :> [i \in 1..Len(ks) |-> AnalysisOf(ks[i], i)] :
        ks \in UNION {[1..m -> AnalysisKinds] : m \in 0..MaxAnalyses}}


(* Dashboard payloads *)

BuildKinds ==
    {"clean", "bare", "warn", "pass", "cfgerr", "comperr", "fail", "notrun"}

\* a build of the dashboard by kind; "bare" carries no counter at all
BuildOf(kind, id) ==
    LET base == ("id" :> id) @@ ("buildname" :> "gcc") @@ ("site" :> "ci")
        zero == [error |-> 0, warning |-> 0]
        none == [fail |-> 0, notrun |-> 0, pass |-> 0]
    IN  CASE kind = "bare" -> base
          [] kind = "clean" ->
                base @@ ("configure" :> zero) @@ ("compilation" :> zero)
                @@ ("test" :> none)
          [] kind = "warn" ->
                base @@ ("compilation" :> [error |-> 0, warning |-> 2])
          [] kind = "pass" ->
                base @@ ("test" :> [fail |-> 0, notrun |-> 0, pass |-> 5])
          [] kind = "cfgerr" -> base @@ ("configure" :> [error |-> 1, warning |-> 0])
          [] kind = "comperr" ->
                base @@ ("compilation" :> [error |-> 4, warning |-> 1])
          [] kind = "fail" ->
                base @@ ("test" :> [fail |-> 3, notrun |-> 0, pass |-> 8])
          [] kind = "notrun" ->
                base @@ ("test" :> [fail |-> 0, notrun |-> 2, pass |-> 0])

\* the id of the p-th build of the g-th group
BuildId(g, p) == ToString(g) \o "-" \o ToString(p)

GroupOf(g, name, kinds) ==
    ("name" :> name)
    @@ ("builds" :> [p \in 1..Len(kinds) |-> BuildOf(kinds[p], BuildId(g, p))])

Run(kind, n) == [i \in 1..n |-> kind]

\* a group of a run of one kind, a run of another and one last build
RunKinds(first, nfirst, second, nsecond, last) ==
    Run(first, nfirst) \o Run(second, nsecond) \o <<last>>

DashboardOf(groups) == ("title" :> "PublicDashboard") @@ ("buildgroups" :> groups)

\* the example of the specification: "Nightly", one failing and one clean build
SmallDashboard == DashboardOf(<<GroupOf(1, "Nightly", <<"fail", "clean">>)>>)

\* the lengths of the two runs
RunLengths == {n \in (0..MaxRun) \X (0..MaxRun) : n[1] + n[2] <= MaxRun + 1}

DashboardPayloads ==
    {EmptyObj}
    \cup {DashboardOf(<<GroupOf(1, "Nightly",
                                RunKinds(o[1], n[1], o[2], n[2], last))>>
                      \o extra) :
            o \in {<<"clean", "fail">>, <<"fail", "clean">>},
            n \in RunLengths,
            last \in BuildKinds,
            extra \in {<<>>, <<GroupOf(2, "Experimental", <<"clean">>)>>}}

(* The payloads of the other tools: the empty object and one of each kind *)

OtherPayloads(t) ==
    CASE t = "get_dashboard" -> {EmptyObj, SmallDashboard}
      [] t = "get_build_details" ->
            {EmptyObj,
             ("build" :> [name |-> "gcc", site |-> "ci"])
             @@ ("configure" :> [nerrors |-> 1, nwarnings |-> 0])
             @@ ("test" :> [pass |-> 8, fail |-> 3, notrun |-> 0])}
      [] t = "get_configure_output" ->
            {EmptyObj,
             "configures" :> <<("status" :> "0") @@ ("output" :> <<"o", "k">>)>>}
      [] t = "get_test_details" ->
            {EmptyObj,
             "test" :> (("name" :> "smoke") @@ ("status" :> "Failed")
                        @@ ("output" :> <<"o", "k">>))}
      [] t = "get_build_update" ->
            {EmptyObj,
             "updategroups" :>
                <<("description" :> "Updated files")
                  @@ ("directories" :>
                        <<("name" :> "src")
                          @@ ("files" :> <<("filename" :> "a.c")
                                           @@ ("log" :> <<"f", "i", "x">>)>>)>>)>>}
      [] t = "get_project_overview" ->
            {EmptyObj,
             ("hasSubProjects" :> TRUE) @@ ("groups" :> <<[name |-> "Nightly"]>>)
             @@ ("coverages" :> <<[name |-> "gcov"]>>)}

\* the answers to the index request of _resolve_project_id
IndexPayloads ==
    {EmptyObj}
    \cup {"projectid" :> v :
            v \in {[int |-> 0], [int |-> 42], [str |-> ""], [str |-> "42"],
                   [str |-> "x"]}}

\* the JSON objects the n-th request of tool t may be answered with
Payloads(t, n) ==
    IF t = "get_test_summary" /\ n = 1 THEN IndexPayloads
    ELSE IF t = "get_dynamic_analysis" THEN {EmptyObj} \cup AnalysisPayloads
    ELSE IF t \in PaginatedTools THEN {EmptyObj} \cup ListPayloads(t)
    ELSE OtherPayloads(t)

ErrorStatuses == {300, 401, 403, 404, 500}

Ok200(body) == [event |-> "response", status |-> 200, json |-> TRUE, body |-> body]

\* everything the awaited GET may end in
Outcomes(t, n) ==
    {[event |-> e, status |-> 0, json |-> FALSE, body |-> EmptyObj] :
        e \in {"ConnectError", "Timeout"}}
    \cup {[event |-> "response", status |-> c, json |-> j, body |-> EmptyObj] :
            c \in ErrorStatuses \cup {200}, j \in BOOLEAN}
    \cup {[event |-> "response", status |-> 201, json |-> TRUE, body |-> EmptyObj]}
    \cup {Ok200(b) : b \in Payloads(t, n)}

-----------------------------------------------------------------------------
(* The state machine *)

\* the value of CDashClient._client
ClientHandle == IF session = "open" THEN "open" ELSE "None"

Init ==
    /\ session = "new"
    /\ pc = "idle"
    /\ tool = ""
    /\ args = DefaultArgs
    /\ sent = <<>>
    /\ replies = <<>>
    /\ fetched = Return(EmptyObj)
    /\ locals = NoLocals
    /\ result = NoResult
    /\ calls = NoCalls
    /\ token = None
    /\ headers = EmptyObj

\* __aenter__ as it would be if it tested the token against None only
AenterBearerUnlessNone(t) ==
    IF ~IsNone(t) THEN ("Authorization" :> ("Bearer " \o t[1])) ELSE EmptyObj

\* CDashClient.__aenter__: the headers the session is created with;
\* headers = {}; if self.token: headers["Authorization"] = f"Bearer {token}"
__aenter__(t) ==
    IF TruthyStr(t) THEN ("Authorization" :> ("Bearer " \o t[1])) ELSE EmptyObj

\* __aexit__ as it would be if it closed the session on a clean exit only
AexitOnCleanExit(client, exc) == IF exc = "none" THEN "closed" ELSE client

\* CDashClient.__aexit__(*exc): if self._client: aclose(); self._client = None
__aexit__(client, exc) == IF client = "open" THEN "closed" ELSE client

\* lifespan: async with client (CDashClient.__aenter__)
AEnter ==
    /\ session = "new"
    /\ session' = "open"
    /\ headers' = __aenter__(token)
    /\ UNCHANGED <<pc, tool, args, sent, replies, fetched, locals, result, calls,
                   token>>

\* lifespan ends (CDashClient.__aexit__)
AExit ==
    /\ session = "open"
    /\ pc = "idle"
    /\ session' = __aexit__(session, "none")
    /\ headers' = IF session' = "closed" THEN EmptyObj ELSE headers
    /\ UNCHANGED <<pc, tool, args, sent, replies, fetched, locals, result, calls,
                   token>>

\* a tool is called with arguments a: it runs to its first await
ToolInvoke(t, a) ==
    /\ session = "open"
    /\ pc = "idle"
    /\ tool' = t
    /\ args' = a
    /\ replies' = <<>>
    /\ fetched' = Return(EmptyObj)
    /\ locals' = NoLocals
    /\ IF BindsOk(t)
       THEN /\ sent' = <<FirstRequest(t, a)>>
            /\ pc' = "awaiting"
            /\ result' = NoResult
       ELSE /\ sent' = <<>>
            /\ pc' = "done"
            /\ result' = RaisedResult("TypeError")
    /\ UNCHANGED <<session, calls, token, headers>>

\* the upstream answers the request in flight, or the transport fails
Reply(o) ==
    /\ pc = "awaiting"
    /\ Len(replies) < Len(sent)
    /\ replies' = Append(replies, o)
    /\ UNCHANGED <<session, pc, tool, args, sent, fetched, locals, result, calls,
                   token, headers>>

UpstreamReply ==
    /\ pc = "awaiting"
    /\ \E o \in Outcomes(tool, Len(sent)) : Reply(o)

\* the tool resumes after its await and runs to its next await or its end
ToolResume ==
    /\ pc = "awaiting"
    /\ Len(replies) = Len(sent)
    /\ LET got == _get(ClientHandle, sent[Len(sent)].path, replies[Len(replies)])
           first == tool = "get_test_summary" /\ Len(sent) = 1
           pid == _resolve_project_id(args.project, got)
           end == ToolFinish(tool, args, IF first THEN pid ELSE got)
       IN  /\ fetched' = got
           /\ IF first /\ ~pid.raised
              THEN /\ sent' = Append(sent, get_test_summary_request(
                                               pid.value, args.test_name[1], args.date))
                   /\ UNCHANGED <<pc, locals, result>>
              ELSE /\ pc' = "done"
                   /\ result' = end.result
                   /\ locals' = end.locals
                   /\ UNCHANGED sent
    /\ UNCHANGED replies
    /\ UNCHANGED <<session, tool, args, calls, token, headers>>

\* the protocol layer has taken the outcome; the server awaits the next call
ToolDone ==
    /\ pc = "done"
    /\ pc' = "idle"
    /\ tool' = ""
    /\ args' = DefaultArgs
    /\ sent' = <<>>
    /\ replies' = <<>>
    /\ fetched' = Return(EmptyObj)
    /\ locals' = NoLocals
    /\ result' = NoResult
    /\ UNCHANGED <<session, calls, token, headers>>

Next ==
    \/ AEnter
    \/ AExit
    \/ \E t \in Tools : \E a \in ArgsOf(t) : ToolInvoke(t, a)
    \/ UpstreamReply
    \/ ToolResume
    \/ ToolDone

Spec == Init /\ [][Next]_vars


-----------------------------------------------------------------------------
(* The dashboard on its own: get_dashboard awaits its answer and is given    *)
(* build groups long enough to pass the cap of twenty builds.                *)

InitDash ==
    /\ session = "open"
    /\ pc = "awaiting"
    /\ tool = "get_dashboard"
    /\ args = DefaultArgs
    /\ sent = <<FirstRequest("get_dashboard", DefaultArgs)>>
    /\ replies = <<>>
    /\ fetched = Return(EmptyObj)
    /\ locals = NoLocals
    /\ result = NoResult
    /\ calls = NoCalls
    /\ token = None
    /\ headers = __aenter__(token)

DashReply == \E d \in DashboardPayloads : Reply(Ok200(d))

NextDash ==
    \/ DashReply
    \/ ToolResume

SpecDash == InitDash /\ [][NextDash]_vars

-----------------------------------------------------------------------------
(* Truncation on its own: each tool that cuts a free text awaits its answer  *)
(* and is given one entry whose text is about as long as the budget.         *)

TruncTools ==
    {"get_failing_tests", "get_build_errors", "get_build_tests",
     "get_configure_output", "get_test_details", "get_build_update"}

\* the budget the tool applies to its text
BudgetOf(t) ==
    CASE t = "get_failing_tests" -> FailingDetailsBudget
      [] t = "get_build_errors" -> ErrorTextBudget
      [] t = "get_build_tests" -> BuildTestDetailsBudget
      [] t = "get_configure_output" -> ConfigureOutputBudget
      [] t = "get_test_details" -> TestOutputBudget
      [] t = "get_build_update" -> UpdateLogBudget

Letter(i) == <<"a", "b", "c">>[(i % 3) + 1]

\* a text of n characters that starts with lead spaces and ends with trail
TextOf(n, lead, trail) ==
    [i \in 1..n |-> IF i <= lead \/ i > n - trail THEN " " ELSE Letter(i)]

TextsAround(budget) ==
    {TextOf(n, lead, trail) :
        n \in {0, 1} \cup ((budget - 1)..(budget + MaxOver)),
        lead \in 0..1, trail \in 0..1}

\* the answer that carries text in the field the tool truncates
TextPayload(t, text) ==
    CASE t = "get_failing_tests" ->
            "builds" :> <<("testname" :> "1") @@ ("details" :> text)>>
      [] t = "get_build_errors" ->
            "errors" :> <<("sourcefile" :> "1") @@ ("text" :> text)>>
      [] t = "get_build_tests" ->
            "tests" :> <<("name" :> "1") @@ ("details" :> text)>>
      [] t = "get_configure_output" ->
            "configures" :> <<("status" :> "0") @@ ("output" :> text)>>
      [] t = "get_test_details" ->
            "test" :> (("name" :> "smoke") @@ ("output" :> text))
      [] t = "get_build_update" ->
            "updategroups" :>
                <<"directories" :>
                    <<"files" :> <<("filename" :> "a.c") @@ ("log" :> text)>>>>>>

InitTrunc ==
    /\ session = "open"
    /\ pc = "awaiting"
    /\ tool \in TruncTools
    /\ args = DefaultArgs
    /\ sent = <<FirstRequest(tool, DefaultArgs)>>
    /\ replies = <<>>
    /\ fetched = Return(EmptyObj)
    /\ locals = NoLocals
    /\ result = NoResult
    /\ calls = NoCalls
    /\ token = None
    /\ headers = __aenter__(token)

TruncReply ==
    \E text \in TextsAround(BudgetOf(tool)) : Reply(Ok200(TextPayload(tool, text)))

NextTrunc ==
    \/ TruncReply
    \/ ToolResume

SpecTrunc == InitTrunc /\ [][NextTrunc]_vars


-----------------------------------------------------------------------------
(* The two client methods that encode filters, called with every combination *)
(* of filters they accept                                                    *)

FilterMethods == {"query_tests", "get_build_tests"}

\* status_filter of query_tests is a str, that of get_build_tests str | None
FilterArgs(m) ==
    CASE m = "query_tests" ->
            {[DefaultArgs EXCEPT !.date = d, !.test_name = n,
                                 !.status_filter = Some(f)] :
                d \in Dates, n \in {None, Some(""), Some("smoke")},
                f \in {"not_passed", "passed", ""}}
      [] m = "get_build_tests" ->
            {[DefaultArgs EXCEPT !.status_filter = f] :
                f \in {None, Some(""), Some("passed"), Some("failed"),
                       Some("notrun")}}

\* the GET the method issues
MethodRequest(m, a) ==
    CASE m = "query_tests" ->
            query_tests_request(a.project, a.date, a.test_name, a.status_filter[1])
      [] m = "get_build_tests" ->
            get_build_tests_request(a.build_id, a.status_filter)

\* what the awaited GET of the method may end in
MethodOutcomes ==
    {[event |-> e, status |-> 0, json |-> FALSE, body |-> EmptyObj] :
        e \in {"ConnectError", "Timeout"}}
    \cup {[event |-> "response", status |-> c, json |-> j, body |-> EmptyObj] :
            c \in ErrorStatuses \cup {200}, j \in BOOLEAN}

InitFilter ==
    /\ session = "open"
    /\ pc = "idle"
    /\ tool \in FilterMethods
    /\ args \in FilterArgs(tool)
    /\ sent = <<>>
    /\ replies = <<>>
    /\ fetched = Return(EmptyObj)
    /\ locals = NoLocals
    /\ result = NoResult
    /\ calls = NoCalls
    /\ token = None
    /\ headers = __aenter__(token)

\* the method builds its parameters and awaits self._get(path, params)
MethodCall ==
    /\ pc = "idle"
    /\ sent = <<>>
    /\ sent' = <<MethodRequest(tool, args)>>
    /\ pc' = "awaiting"
    /\ UNCHANGED <<session, tool, args, replies, fetched, locals, result, calls,
                   token, headers>>

MethodReply == \E o \in MethodOutcomes : Reply(o)

\* return await self._get(...)
MethodReturn ==
    /\ pc = "awaiting"
    /\ Len(replies) = Len(sent)
    /\ fetched' = _get(ClientHandle, sent[1].path, replies[1])
    /\ pc' = "done"
    /\ UNCHANGED <<session, tool, args, sent, replies, locals, result, calls,
                   token, headers>>

NextFilter ==
    \/ MethodCall
    \/ MethodReply
    \/ MethodReturn

SpecFilter == InitFilter /\ [][NextFilter]_vars

-----------------------------------------------------------------------------
(* The lifespan of the server: the session is opened, calls are served, and  *)
(* the lifespan is left at any moment, also while a call awaits its answer   *)

\* how the body of "async with client" is left: the server returns, an
\* exception is thrown into the lifespan, or it is cancelled
ExitCauses == {"none", "Exception", "CancelledError"}

\* async with client: yield ...; __aexit__ runs however the block is left,
\* and the call in flight is abandoned
LifespanExit ==
    /\ session = "open"
    /\ \E exc \in ExitCauses : session' = __aexit__(session, exc)
    /\ pc' = "exited"
    /\ headers' = IF session' = "closed" THEN EmptyObj ELSE headers
    /\ UNCHANGED <<tool, args, sent, replies, fetched, locals, result, calls, token>>

\* one call of each tool: the default arguments, and the test name that
\* get_test_summary requires
CallArgs(t) ==
    IF t = "get_test_summary" THEN [DefaultArgs EXCEPT !.test_name = Some("smoke")]
    ELSE DefaultArgs

NextLife ==
    \/ AEnter
    \/ \E t \in Tools : ToolInvoke(t, CallArgs(t))
    \/ UpstreamReply
    \/ ToolResume
    \/ ToolDone
    \/ LifespanExit

SpecLife == Init /\ [][NextLife]_vars

(* The same lifespan under each configuration of the token: CDASH_TOKEN not  *)
(* set, set to the empty string, set to a token                              *)

Tokens == {None, Some(""), Some("s3cret")}

InitAuth ==
    /\ session = "new"
    /\ pc = "idle"
    /\ tool = ""
    /\ args = DefaultArgs
    /\ sent = <<>>
    /\ replies = <<>>
    /\ fetched = Return(EmptyObj)
    /\ locals = NoLocals
    /\ result = NoResult
    /\ calls = NoCalls
    /\ token \in Tokens
    /\ headers = EmptyObj

SpecAuth == InitAuth /\ [][NextLife]_vars

-----------------------------------------------------------------------------
(* Two calls that run side by side on the one client, each step of a call    *)
(* running from one await to the next                                        *)

\* the client as a step of _get would leave it if it dropped the session
\* when the transport fails
SelfDroppedOnFailure(client, outcome) ==
    IF outcome.event # "response" THEN "None" ELSE client

\* _get and the methods that call it assign no attribute of self: the client
\* they leave is the client they found
SelfAfterGet(client, outcome) == client

ConcTools == {"get_failing_tests", "get_test_summary", "get_dashboard"}

\* the arguments of a call: the defaults, and a window of one item
ConcArgs(t) ==
    {CallArgs(t)}
    \cup (IF t \in PaginatedTools
          THEN {[CallArgs(t) EXCEPT !.limit = 1, !.offset = 1]}
          ELSE {})

\* some of what the n-th GET of tool t may end in
ConcOutcomes(t, n) ==
    {[event |-> "ConnectError", status |-> 0, json |-> FALSE, body |-> EmptyObj],
     [event |-> "response", status |-> 404, json |-> FALSE, body |-> EmptyObj],
     [event |-> "response", status |-> 200, json |-> FALSE, body |-> EmptyObj],
     Ok200(EmptyObj)}
    \cup (IF t = "get_test_summary" /\ n = 1
          THEN {Ok200("projectid" :> [int |-> 42])}
          ELSE IF t = "get_dashboard" THEN {Ok200(SmallDashboard)}
          ELSE {Ok200(ListKey(t) :> [i \in 1..3 |-> ItemOf(t, i)])})

\* another call is awaiting its answer
OthersAwaiting(c) == \E d \in CallIds \ {c} : calls[d].pc = "awaiting"

InitConc ==
    /\ session = "open"
    /\ pc = "idle"
    /\ tool = ""
    /\ args = DefaultArgs
    /\ sent = <<>>
    /\ replies = <<>>
    /\ fetched = Return(EmptyObj)
    /\ locals = NoLocals
    /\ result = NoResult
    /\ calls = NoCalls
    /\ token = None
    /\ headers = __aenter__(token)

\* call c is made: the tool runs to its first await
CallInvoke(c, t, a) ==
    /\ session = "open"
    /\ calls[c].pc = "idle"
    /\ calls' = [calls EXCEPT ![c] =
                    IF BindsOk(t)
                    THEN [pc |-> "awaiting", tool |-> t, args |-> a,
                          sent |-> <<FirstRequest(t, a)>>, replies |-> <<>>,
                          result |-> NoResult, met |-> OthersAwaiting(c)]
                    ELSE [pc |-> "done", tool |-> t, args |-> a,
                          sent |-> <<>>, replies |-> <<>>,
                          result |-> RaisedResult("TypeError"),
                          met |-> OthersAwaiting(c)]]
    /\ UNCHANGED <<session, pc, tool, args, sent, replies, fetched, locals, result,
                   token, headers>>

\* the request call c has in flight ends
CallReply(c) ==
    /\ calls[c].pc = "awaiting"
    /\ Len(calls[c].replies) < Len(calls[c].sent)
    /\ \E o \in ConcOutcomes(calls[c].tool, Len(calls[c].sent)) :
          calls' = [calls EXCEPT ![c].replies = Append(@, o)]
    /\ UNCHANGED <<session, pc, tool, args, sent, replies, fetched, locals, result,
                   token, headers>>

\* call c resumes after its await and runs to its next await or its end
CallResume(c) ==
    LET r == calls[c]
        n == Len(r.sent)
    IN  /\ r.pc = "awaiting"
        /\ Len(r.replies) = n
        /\ LET got == _get(ClientHandle, r.sent[n].path, r.replies[n])
               first == r.tool = "get_test_summary" /\ n = 1
               pid == _resolve_project_id(r.args.project, got)
               end == ToolFinish(r.tool, r.args, IF first THEN pid ELSE got)
               met == r.met \/ OthersAwaiting(c)
           IN  /\ calls' = [calls EXCEPT ![c] =
                     IF first /\ ~pid.raised
                     THEN [r EXCEPT !.sent = Append(@, get_test_summary_request(
                                         pid.value, r.args.test_name[1], r.args.date)),
                                    !.met = met]
                     ELSE [r EXCEPT !.pc = "done", !.result = end.result,
                                    !.met = met]]
               /\ session' = SelfAfterGet(session, r.replies[n])
        /\ UNCHANGED <<pc, tool, args, sent, replies, fetched, locals, result,
                       token, headers>>

NextConc ==
    \/ \E c \in CallIds : \E t \in ConcTools : \E a \in ConcArgs(t) : CallInvoke(c, t, a)
    \/ \E c \in CallIds : CallReply(c)
    \/ \E c \in CallIds : CallResume(c)

SpecConc == InitConc /\ [][NextConc]_vars

-----------------------------------------------------------------------------
(* A caller walking the pages of a list: the first call has offset 0, each   *)
(* further call has the offset the trailer of the page before names, and the *)
(* upstream gives the same list at every call. calls is the sequence of the  *)
(* calls of the walk that have been left behind.                             *)

WalkTools == {"get_failing_tests", "get_build_tests"}

\* the call as it stands, finished
WalkedCall ==
    [pc |-> "done", tool |-> tool, args |-> args, sent |-> sent,
     replies |-> replies, result |-> result, met |-> FALSE]

\* the lines of the page that tell the caller where to go on
TrailerOf(lines) == SelectSeq(lines, LAMBDA l : l.k = "trailer")

InitWalk ==
    /\ session = "open"
    /\ pc = "awaiting"
    /\ tool \in WalkTools
    /\ args \in {[DefaultArgs EXCEPT !.limit = l, !.offset = 0] : l \in LimitInputs}
    /\ sent = <<FirstRequest(tool, args)>>
    /\ replies = <<>>
    /\ fetched = Return(EmptyObj)
    /\ locals = NoLocals
    /\ result = NoResult
    /\ calls = <<>>
    /\ token = None
    /\ headers = __aenter__(token)

\* the upstream answers with a list of 1..MaxItems items, the same list at
\* every call of one walk
WalkReply ==
    /\ pc = "awaiting"
    /\ \E d \in ListPayloads(tool) :
        /\ d[ListKey(tool)] # <<>>
        /\ calls # <<>> => d = calls[1].replies[1].body
        /\ Reply(Ok200(d))

\* the caller reads the trailer and calls again with the offset it names
WalkOn ==
    /\ pc = "done"
    /\ result.kind = "text"
    /\ TrailerOf(result.lines) # <<>>
    /\ Len(calls) <= MaxItems
    /\ calls' = Append(calls, WalkedCall)
    /\ args' = [args EXCEPT !.offset = TrailerOf(result.lines)[1].next]
    /\ sent' = <<FirstRequest(tool, args')>>
    /\ replies' = <<>>
    /\ fetched' = Return(EmptyObj)
    /\ locals' = NoLocals
    /\ result' = NoResult
    /\ pc' = "awaiting"
    /\ UNCHANGED <<session, tool, token, headers>>

NextWalk ==
    \/ WalkReply
    \/ ToolResume
    \/ WalkOn

SpecWalk == InitWalk /\ [][NextWalk]_vars

-----------------------------------------------------------------------------
(* The client object in every state of its session: the methods are called   *)
(* before __aenter__, while the session is open and after __aexit__, and     *)
(* __aexit__ is called in every state too, one call at a time.               *)

\* the assertion as it would be if it let every call through
GetSendsAlways(client) == TRUE

\* _get: assert self._client is not None, before self._client.get(...)
GetSends(client) == client # "None"

\* a tool function is called on the client in whatever state it is: it runs
\* to its first await, or to the exception that ends it
DirectCall(t, a) ==
    /\ pc \in {"idle", "exited"}
    /\ tool' = t
    /\ args' = a
    /\ replies' = <<>>
    /\ fetched' = Return(EmptyObj)
    /\ locals' = NoLocals
    /\ IF ~BindsOk(t)
       THEN /\ sent' = <<>>
            /\ pc' = "done"
            /\ result' = RaisedResult("TypeError")
       ELSE IF GetSends(ClientHandle)
       THEN /\ sent' = <<FirstRequest(t, a)>>
            /\ pc' = "awaiting"
            /\ result' = NoResult
       ELSE /\ sent' = <<>>
            /\ pc' = "done"
            /\ result' = ToolFinish(t, a, _get(ClientHandle, FirstRequest(t, a).path,
                                              Ok200(EmptyObj))).result
    /\ UNCHANGED <<session, calls, token, headers>>

\* __aenter__ is called between two calls on a client without a session, a
\* new one or one that was left: it creates the session
ClientEnter ==
    /\ pc \in {"idle", "exited"}
    /\ session # "open"
    /\ session' = "open"
    /\ headers' = __aenter__(token)
    /\ pc' = "idle"
    /\ UNCHANGED <<tool, args, sent, replies, fetched, locals, result, calls, token>>

\* __aexit__ is called between two calls, whatever the state of the session
ClientExit ==
    /\ pc \in {"idle", "exited"}
    /\ \E exc \in ExitCauses : session' = __aexit__(session, exc)
    /\ pc' = "exited"
    /\ headers' = IF session' = "closed" THEN EmptyObj ELSE headers
    /\ UNCHANGED <<tool, args, sent, replies, fetched, locals, result, calls, token>>

NextHandle ==
    \/ ClientEnter
    \/ \E t \in Tools : DirectCall(t, CallArgs(t))
    \/ UpstreamReply
    \/ ToolResume
    \/ ToolDone
    \/ ClientExit

SpecHandle == InitAuth /\ [][NextHandle]_vars

-----------------------------------------------------------------------------
(* Reading a finished call *)

Done == pc = "done"
\* the call fetched its JSON and returned the text it rendered from it
Rendered ==
    Done /\ result.kind = "text" /\ replies # <<>> /\ result.lines[1].k # "error"
LastReply == replies[Len(replies)]

LinesOfKind(lines, kind) == SelectSeq(lines, LAMBDA l : l.k = kind)
HasLine(kind) == LinesOfKind(result.lines, kind) # <<>>
EntryNames ==
    LET e == LinesOfKind(result.lines, "entry") IN [i \in 1..Len(e) |-> e[i].name]

\* an outcome of the error taxonomy: no connection, a timeout, a status not 2xx
IsUpstreamFailure(o) ==
    \/ o.event \in {"ConnectError", "Timeout"}
    \/ o.event = "response" /\ o.status \notin 200..299

\* a 2xx answer whose body is a JSON object
IsJsonAnswer(o) == o.event = "response" /\ o.status \in 200..299 /\ o.json

-----------------------------------------------------------------------------
(* C1: whenever a request of a tool call ends in a failure of the taxonomy   *)
(* (connect failure, timeout, 401/403, 404, any other non-2xx status) the    *)
(* call returns the text "Error: <message>" and raises nothing.              *)
C1_FailureBecomesErrorText ==
    (Done /\ replies # <<>> /\ IsUpstreamFailure(LastReply))
        => /\ result.kind = "text"
           /\ Len(result.lines) = 1
           /\ result.lines[1].k = "error"

(* C2: _get classifies by the transport event and the status alone, before   *)
(* the body is parsed: connect failure or timeout gives CDashConnectionError,*)
(* 401/403 CDashAuthError, 404 CDashNotFoundError, any other non-2xx a       *)
(* generic HTTP error, and a 2xx with valid JSON the parsed body unchanged.  *)
C2_GetClassifies ==
    (replies # <<>> /\ Len(replies) = Len(sent) /\ pc = "done")
        => LET o == LastReply
           IN  /\ o.event \in {"ConnectError", "Timeout"}
                    => fetched.raised /\ fetched.exc = "CDashConnectionError"
               /\ (o.event = "response" /\ o.status \in {401, 403})
                    => fetched.raised /\ fetched.exc = "CDashAuthError"
               /\ (o.event = "response" /\ o.status = 404)
                    => fetched.raised /\ fetched.exc = "CDashNotFoundError"
               /\ (o.event = "response" /\ o.status \notin 200..299
                   /\ o.status \notin {401, 403, 404})
                    => fetched.raised /\ fetched.exc = "HTTPStatusError"
               /\ IsJsonAnswer(o) => ~fetched.raised /\ fetched.value = o.body

\* a 404 whose body is no JSON is still a CDashNotFoundError
C2_Witness ==
    /\ Done /\ replies # <<>>
    /\ LastReply.status = 404 /\ ~LastReply.json
    /\ fetched.raised /\ fetched.exc = "CDashNotFoundError"

(* C3: a tool called with arguments of its schema, all of whose requests are *)
(* answered 2xx with a JSON object, returns a text and raises nothing.       *)
C3_ToolReturnsText ==
    (Done /\ \A i \in DOMAIN replies : IsJsonAnswer(replies[i]))
        => result.kind = "text"

(* C4: the compareCoverage request of get_coverage_comparison carries the    *)
(* build id when one is given, and only project and date when none is.       *)
C4_CoverageRequestScoped ==
    (Done /\ tool = "get_coverage_comparison")
        => /\ Len(sent) = 1
           /\ sent[1].path = "/api/v1/compareCoverage.php"
           /\ IF IsNone(args.opt_build_id)
              THEN DOMAIN sent[1].params \subseteq {"project", "date"}
              ELSE /\ "buildid" \in DOMAIN sent[1].params
                   /\ sent[1].params["buildid"] = args.opt_build_id[1]


-----------------------------------------------------------------------------
(* Reading a page *)

\* the list the tool paginates: for get_dynamic_analysis the analyses with
\* at least one defect, for the other tools the list of the answer
SourceList ==
    IF tool = "get_dynamic_analysis"
    THEN SelectSeq(DictGet(LastReply.body, "dynamicanalyses", <<>>), HasDefects)
    ELSE DictGet(LastReply.body, ListKey(tool), <<>>)

\* the field an entry is named by
NameKey ==
    CASE tool = "get_failing_tests" -> "testname"
      [] tool = "get_build_errors" -> "sourcefile"
      [] tool = "get_test_summary" -> "buildName"
      [] OTHER -> "name"

\* the window of the claims, from the arguments of the caller
EffLimit == Min(Max(args.limit, 1), 200)
EffOffset == Max(args.offset, 0)
\* how many items the window holds
InWindow == Min(EffLimit, Len(SourceList) - EffOffset)

PageRendered == Rendered /\ tool \in PaginatedTools

(* C5: when a paginated tool takes its slice, limit is                       *)
(* min(max(limit, 1), 200) and offset is max(offset, 0) of what the caller   *)
(* gave, so 1 <= limit <= 200 and offset >= 0.                               *)
C5_WindowClamped ==
    (Done /\ tool \in PaginatedTools /\ locals.sliced)
        => /\ locals.limit = EffLimit
           /\ locals.offset = EffOffset
           /\ 1 <= locals.limit /\ locals.limit <= 200
           /\ locals.offset >= 0

\* a limit above 200 and a negative offset, clamped to 200 and 0
C5_Witness ==
    /\ Done /\ tool \in PaginatedTools /\ locals.sliced
    /\ args.limit > 200 /\ args.offset < 0
    /\ locals.limit = 200 /\ locals.offset = 0

(* C6: for a list of N > 0 items and the effective window (limit, offset):  *)
(* with offset < N the header gives the total N and the range offset+1 to    *)
(* offset+min(limit, N-offset) and exactly those items are rendered, in      *)
(* order; with offset >= N the "no results in this range" line gives the     *)
(* total and the offset and no item is rendered.                             *)
C6_PageShown ==
    (PageRendered /\ Len(SourceList) > 0)
        => LET n == Len(SourceList)
               range == LinesOfKind(result.lines, "range")
               norange == LinesOfKind(result.lines, "norange")
           IN  IF EffOffset < n
               THEN /\ range = <<[k |-> "range", total |-> n, lo |-> EffOffset + 1,
                                  hi |-> EffOffset + InWindow]>>
                    /\ norange = <<>>
                    /\ EntryNames =
                         [i \in 1..InWindow |-> SourceList[EffOffset + i][NameKey]]
               ELSE /\ norange = <<[k |-> "norange", total |-> n,
                                    offset |-> EffOffset]>>
                    /\ range = <<>>
                    /\ EntryNames = <<>>

\* five items, limit 3, offset 3: the range 4-5 and the items 4 and 5
C6_Witness ==
    /\ PageRendered /\ tool = "get_build_tests" /\ Len(SourceList) = 5
    /\ args.limit = 3 /\ args.offset = 3
    /\ HasLine("range")
    /\ LinesOfKind(result.lines, "range")[1].lo = 4
    /\ LinesOfKind(result.lines, "range")[1].hi = 5
    /\ EntryNames = <<"4", "5">>

(* C7 as claimed: when the paginated list is empty the tool renders its      *)
(* "none found" line, with no range header and no trailer; for               *)
(* get_dynamic_analysis the paginated list is the analyses with a defect.    *)
C7_EmptyListNoneFound ==
    (PageRendered /\ Len(SourceList) = 0)
        => HasLine("none") /\ ~HasLine("range") /\ ~HasLine("trailer")

(* C7 as amended: when the list of the answer is empty the tool renders its  *)
(* "none found" line, with no range header and no trailer; in                *)
(* get_dynamic_analysis that list is the list of all analyses, and when      *)
(* there are analyses but none has a defect the tool renders no "none found" *)
(* line but the results header and the count of clean tests, still with no   *)
(* range header and no trailer.                                              *)
C7_EmptyListAmended ==
    (PageRendered /\ Len(SourceList) = 0)
        => LET analyses == DictGet(LastReply.body, "dynamicanalyses", <<>>)
           IN  /\ ~HasLine("range") /\ ~HasLine("trailer") /\ ~HasLine("norange")
               /\ EntryNames = <<>>
               /\ IF tool = "get_dynamic_analysis" /\ Len(analyses) > 0
                  THEN /\ ~HasLine("none")
                       /\ LinesOfKind(result.lines, "results")
                            = <<[k |-> "results", total |-> Len(analyses)]>>
                       /\ LinesOfKind(result.lines, "clean")
                            = <<[k |-> "clean", n |-> Len(analyses)]>>
                  ELSE HasLine("none")

\* analyses that are all clean: no "none found" line, only the clean count
C7_Witness ==
    /\ PageRendered /\ tool = "get_dynamic_analysis"
    /\ Len(SourceList) = 0
    /\ Len(DictGet(LastReply.body, "dynamicanalyses", <<>>)) = 2
    /\ ~HasLine("none") /\ HasLine("clean")

(* C8: after a non-empty page a trailer is rendered exactly when items remain*)
(* beyond it; it gives N - offset - (items shown) as the remaining count and *)
(* offset + limit, the index of the first item not shown, as the next offset.*)
C8_Trailer ==
    (PageRendered /\ Len(SourceList) > 0 /\ EffOffset < Len(SourceList))
        => LET shown == Len(EntryNames)
               remaining == Len(SourceList) - EffOffset - shown
               trailer == LinesOfKind(result.lines, "trailer")
           IN  /\ (trailer # <<>>) <=> (remaining > 0)
               /\ trailer # <<>>
                    => /\ trailer = <<[k |-> "trailer", remaining |-> remaining,
                                       next |-> EffOffset + EffLimit]>>
                       /\ trailer[1].next = EffOffset + shown

\* five items, limit 2, offset 2: the range 3-4, 1 more, offset=4
C8_Witness ==
    /\ PageRendered /\ tool = "get_failing_tests" /\ Len(SourceList) = 5
    /\ args.limit = 2 /\ args.offset = 2
    /\ LinesOfKind(result.lines, "range")
         = <<[k |-> "range", total |-> 5, lo |-> 3, hi |-> 4]>>
    /\ LinesOfKind(result.lines, "trailer")
         = <<[k |-> "trailer", remaining |-> 1, next |-> 4]>>


-----------------------------------------------------------------------------
(* Truncation *)

\* the value of the free-text field in the answer
RawText ==
    LET body == LastReply.body
    IN  CASE tool = "get_failing_tests" -> body["builds"][1]["details"]
          [] tool = "get_build_errors" -> body["errors"][1]["text"]
          [] tool = "get_build_tests" -> body["tests"][1]["details"]
          [] tool = "get_configure_output" -> body["configures"][1]["output"]
          [] tool = "get_test_details" -> body["test"]["output"]
          [] tool = "get_build_update" ->
                body["updategroups"][1]["directories"][1]["files"][1]["log"]

\* the kind of line that carries the field
TextLineKind ==
    CASE tool = "get_failing_tests" -> "details"
      [] tool = "get_build_errors" -> "text"
      [] tool = "get_build_tests" -> "entry"
      [] tool \in {"get_configure_output", "get_test_details"} -> "output"
      [] tool = "get_build_update" -> "log"

\* the texts rendered for the field, the empty ones left out
RenderedTexts ==
    LET ls == LinesOfKind(result.lines, TextLineKind)
    IN  SelectSeq([i \in 1..Len(ls) |-> ls[i].text], LAMBDA t : t # <<>>)

\* the budget and the marker the claim gives for the field
ClaimBudget ==
    CASE tool \in {"get_failing_tests", "get_build_update"} -> 200
      [] tool = "get_build_tests" -> 150
      [] tool = "get_build_errors" -> 500
      [] tool = "get_configure_output" -> 5000
      [] tool = "get_test_details" -> 8000

ClaimMarker ==
    CASE tool = "get_configure_output" -> ConfigureNote
      [] tool = "get_test_details" -> TestNote
      [] OTHER -> Ellipsis

\* the first B characters and the marker above the budget, the value below
Budgeted(value) ==
    IF Len(value) > ClaimBudget
    THEN SubSeq(value, 1, ClaimBudget) \o ClaimMarker
    ELSE value

TextRendered == Rendered /\ tool \in TruncTools

(* C9 as claimed: a value of the free-text field longer than the budget B    *)
(* of its tool is rendered as its first B characters followed by the marker, *)
(* a value of B characters or fewer is rendered unchanged.                   *)
C9_ValueTruncated ==
    (TextRendered /\ RawText # <<>>) => RenderedTexts = <<Budgeted(RawText)>>

(* C9 as amended: the build error text and the update log are first stripped *)
(* of leading and trailing whitespace and the budget applies to what is left;*)
(* the other fields are taken as they are.  What is left is rendered as its  *)
(* first B characters followed by the marker when longer than B, unchanged   *)
(* when of B characters or fewer, and not at all when empty.                 *)
C9_StrippedValueTruncated ==
    TextRendered
        => LET value == IF tool \in {"get_build_errors", "get_build_update"}
                        THEN Strip(RawText) ELSE RawText
           IN  RenderedTexts = IF value = <<>> THEN <<>> ELSE <<Budgeted(value)>>

\* an error text of 502 characters, 501 without its leading space: the first
\* 500 characters after the space and the marker
C9_Witness ==
    /\ TextRendered /\ tool = "get_build_errors"
    /\ Len(RawText) = 502 /\ RawText[1] = " " /\ Len(Strip(RawText)) = 501
    /\ RenderedTexts = <<SubSeq(RawText, 2, 501) \o Ellipsis>>

-----------------------------------------------------------------------------
(* The dashboard *)

\* the builds of the g-th group of the answer
BuildsOf(g) == DictGet(DictGet(LastReply.body, "buildgroups", <<>>)[g], "builds", <<>>)

\* one of the four counts of the claim is not zero
IssueBuild(build) ==
    \E c \in {<<"configure", "error">>, <<"compilation", "error">>,
              <<"test", "fail">>, <<"test", "notrun">>} :
        Counter(build, c[1], c[2]) # 0

\* the build is listed: one of the build lines carries its id
Listed(build) ==
    \E i \in 1..Len(result.lines) :
        result.lines[i].k = "build" /\ result.lines[i].id = build["id"]

DashRendered == Rendered /\ tool = "get_dashboard"

(* C10: in the dashboard every build with a nonzero configure-error,         *)
(* compile-error, test-fail or test-notrun count is listed, at every         *)
(* position of every group, however many builds were listed before it.       *)
C10_IssueBuildsListed ==
    DashRendered
        => \A g \in 1..Len(DictGet(LastReply.body, "buildgroups", <<>>)) :
             \A p \in 1..Len(BuildsOf(g)) :
                IssueBuild(BuildsOf(g)[p]) => Listed(BuildsOf(g)[p])

\* 21 builds without issues, then one with a configure error: the 21st is
\* left out, the 22nd is listed
C10_Witness ==
    /\ DashRendered
    /\ Len(DictGet(LastReply.body, "buildgroups", <<>>)) >= 1
    /\ Len(BuildsOf(1)) = 22
    /\ \A p \in 1..21 : ~IssueBuild(BuildsOf(1)[p])
    /\ Counter(BuildsOf(1)[22], "configure", "error") # 0
    /\ ~Listed(BuildsOf(1)[21])
    /\ Listed(BuildsOf(1)[22])
    /\ LinesOfKind(result.lines, "more") = <<[k |-> "more", n |-> 1]>>


\* how many of the builds before position p of group g are listed
ListedBefore(g, p) ==
    Cardinality({q \in 1..(p - 1) : Listed(BuildsOf(g)[q])})

\* how many of the builds without issues before position p are listed
CleanListedBefore(g, p) ==
    Cardinality({q \in 1..(p - 1) :
                    ~IssueBuild(BuildsOf(g)[q]) /\ Listed(BuildsOf(g)[q])})

(* C11 as claimed: a build without issues is listed exactly when fewer than  *)
(* 20 builds without issues of its group have been listed before it; the     *)
(* builds with issues listed before it do not count.                         *)
C11_CleanAllowance ==
    DashRendered
        => \A g \in 1..Len(DictGet(LastReply.body, "buildgroups", <<>>)) :
             \A p \in 1..Len(BuildsOf(g)) :
                ~IssueBuild(BuildsOf(g)[p])
                    => (Listed(BuildsOf(g)[p]) <=> CleanListedBefore(g, p) < 20)

(* C11 as amended: a build without issues is listed exactly when fewer than  *)
(* 20 builds of its group, with or without issues, have been listed before   *)
(* it; the builds with issues listed before it do count.                     *)
C11_SharedAllowance ==
    DashRendered
        => \A g \in 1..Len(DictGet(LastReply.body, "buildgroups", <<>>)) :
             \A p \in 1..Len(BuildsOf(g)) :
                ~IssueBuild(BuildsOf(g)[p])
                    => (Listed(BuildsOf(g)[p]) <=> ListedBefore(g, p) < 20)

\* 20 builds with issues, all listed, then a build without: it is left out
C11_Witness ==
    /\ DashRendered
    /\ Len(DictGet(LastReply.body, "buildgroups", <<>>)) >= 1
    /\ Len(BuildsOf(1)) >= 21
    /\ \A p \in 1..20 : IssueBuild(BuildsOf(1)[p]) /\ Listed(BuildsOf(1)[p])
    /\ ~IssueBuild(BuildsOf(1)[21])
    /\ CleanListedBefore(1, 21) = 0
    /\ ~Listed(BuildsOf(1)[21])
    /\ HasLine("more")


-----------------------------------------------------------------------------
(* The filter parameters *)

\* the parameters of the request the method built
BuiltParams == sent[1].params

\* "field1", "compare2", ...
IndexedKey(prefix, i) == prefix \o ToString(i)

\* the number of triples the filters of the call ask for
TriplesAsked ==
    IF tool = "query_tests"
    THEN (IF args.status_filter = Some("not_passed") THEN 1 ELSE 0)
         + (IF args.test_name \notin {None, Some("")} THEN 1 ELSE 0)
    ELSE (IF args.status_filter \notin {None, Some("")} THEN 1 ELSE 0)

\* the request of one of the two methods has been built
FilterBuilt == tool \in FilterMethods /\ sent # <<>>

(* C12: in the query query_tests or get_build_tests builds for k filters,    *)
(* field_i, compare_i and value_i are present for exactly i = 1..k and       *)
(* filtercount is k; with no filter there is no indexed parameter and no     *)
(* filtercount.                                                              *)
C12_FilterIndices ==
    FilterBuilt
        => /\ \A i \in 1..3 : \A prefix \in {"field", "compare", "value"} :
                IndexedKey(prefix, i) \in DOMAIN BuiltParams <=> i <= TriplesAsked
           /\ IF TriplesAsked = 0
              THEN "filtercount" \notin DOMAIN BuiltParams
              ELSE /\ "filtercount" \in DOMAIN BuiltParams
                   /\ BuiltParams["filtercount"] = ToString(TriplesAsked)

\* not passed and a test name: two triples, the name second, filtercount 2
C12_Witness ==
    /\ FilterBuilt /\ tool = "query_tests"
    /\ args.status_filter = Some("not_passed") /\ args.test_name = Some("smoke")
    /\ BuiltParams["field1"] = "status" /\ BuiltParams["field2"] = "testname"
    /\ BuiltParams["value2"] = "smoke"
    /\ BuiltParams["filtercount"] = "2"

-----------------------------------------------------------------------------
(* The two requests of get_test_summary *)

\* the answer to the index request names a project: the field is there and
\* is neither zero nor empty
CarriesId(o) ==
    /\ IsJsonAnswer(o)
    /\ "projectid" \in DOMAIN o.body
    /\ o.body["projectid"] \notin {[int |-> 0], [str |-> ""]}

(* C14: in a test-summary call the index request is the first request; the   *)
(* testSummary request is issued only after the index request was answered,  *)
(* and only if the answer carried a project identifier; at most one request  *)
(* is in flight; when the answer carries no identifier (absent, empty or     *)
(* zero) the call fails with the CDashNotFoundError that names the project   *)
(* and only the index request was sent.                                      *)
C14_ResolveThenQuery ==
    tool = "get_test_summary"
        => /\ Len(sent) <= 2
           /\ Len(replies) <= Len(sent) /\ Len(sent) - Len(replies) <= 1
           /\ sent # <<>>
                => sent[1] = [path |-> "/api/v1/index.php",
                              params |-> ("project" :> args.project)]
           /\ Len(sent) = 2
                => /\ replies # <<>> /\ CarriesId(replies[1])
                   /\ sent[2].path = "/api/v1/testSummary.php"
                   /\ sent[2].params["name"] = args.test_name[1]
           /\ (Done /\ replies # <<>> /\ IsJsonAnswer(replies[1])
               /\ ~CarriesId(replies[1]))
                => /\ Len(sent) = 1
                   /\ result.kind = "text"
                   /\ result.exc = "CDashNotFoundError"
                   /\ result.lines = <<[k |-> "error", msg |-> args.project]>>

\* the index answers with an object without identifier: the call ends with
\* the error that names the project, one request sent
C14_Witness ==
    /\ Done /\ tool = "get_test_summary"
    /\ Len(sent) = 1 /\ Len(replies) = 1
    /\ replies[1] = Ok200(EmptyObj)
    /\ result.exc = "CDashNotFoundError"
    /\ result.lines = <<[k |-> "error", msg |-> "PublicDashboard"]>>


-----------------------------------------------------------------------------
(* The requests of one call *)

\* the request did not give the call its JSON
FailedReply(o) == IsUpstreamFailure(o) \/ ~o.json

\* the call ended with a failure as its outcome: an "Error: ..." text or an
\* exception
ReportsFailure ==
    \/ result.kind = "raised"
    \/ result.kind = "text" /\ result.lines[1].k = "error"

(* C15: a finished call has issued exactly one GET, a test-summary call one  *)
(* or two to two different routes; no request follows a failed one, and the  *)
(* failure is the outcome of the call.                                       *)
C15_NoRetry ==
    (Done /\ tool \in Tools)
        => /\ IF tool = "get_test_summary"
              THEN /\ Len(sent) \in {1, 2}
                   /\ Len(sent) = 2 => sent[1].path # sent[2].path
              ELSE Len(sent) = 1
           /\ \A i \in 1..Len(replies) :
                FailedReply(replies[i]) => i = Len(sent) /\ ReportsFailure


-----------------------------------------------------------------------------
(* The session *)

(* C16: the session is opened once and closed once, in that order and never  *)
(* again; once the lifespan is left the session is closed, however it was    *)
(* left and also when a call was in flight; a call runs only while that one  *)
(* session is open, and no step of a call opens or closes a session.         *)
C16_SessionLifecycle ==
    /\ [](pc = "exited" => session = "closed")
    /\ [](pc \in {"awaiting", "done"} => session = "open")
    /\ [][session' # session
            => \/ session = "new" /\ session' = "open" /\ pc = "idle" /\ pc' = "idle"
               \/ session = "open" /\ session' = "closed" /\ pc' = "exited"]_vars

\* the lifespan was left while a request was in flight: the session is closed
C16_Witness ==
    /\ pc = "exited" /\ session = "closed"
    /\ tool = "get_dashboard"
    /\ Len(sent) = 1 /\ replies = <<>>


-----------------------------------------------------------------------------
(* Calls side by side *)

\* what the call would have produced alone on the open client, from its own
\* arguments and the answers to its own requests
SoloResult(r) ==
    LET n == Len(r.replies)
        got == _get("open", r.sent[n].path, r.replies[n])
    IN  IF r.sent = <<>> THEN RaisedResult("TypeError")
        ELSE IF r.tool = "get_test_summary" /\ n = 1
        THEN ToolFinish(r.tool, r.args, _resolve_project_id(r.args.project, got)).result
        ELSE ToolFinish(r.tool, r.args, got).result

-----------------------------------------------------------------------------
(* Answers that are not what the tool expects *)

(* C19: when a request is answered 2xx with a body that is not JSON, _get    *)
(* raises the parse failure, which is none of the CDashError classes, and    *)
(* the tool lets it through: the call ends with that exception and with no   *)
(* "Error: ..." text.                                                        *)
C19_InvalidJsonPropagates ==
    (Done /\ tool \in Tools /\ replies # <<>>
     /\ LastReply.event = "response" /\ LastReply.status \in 200..299
     /\ ~LastReply.json)
        => /\ fetched.raised
           /\ fetched.exc \notin {"CDashError", "CDashAuthError",
                                  "CDashNotFoundError", "CDashConnectionError"}
           /\ result.kind = "raised"
           /\ result.exc = fetched.exc
           /\ result.lines = <<>>

\* the dashboard request is answered 200 with a body that is not JSON
C19_Witness ==
    /\ Done /\ tool = "get_dashboard" /\ Len(replies) = 1
    /\ LastReply.event = "response" /\ LastReply.status = 200 /\ ~LastReply.json
    /\ result = RaisedResult("JSONDecodeError")

\* the fields the tool reads from the answer to its i-th request
ExpectedFields(i) ==
    CASE tool = "get_dashboard" -> {"title", "datetime", "buildgroups"}
      [] tool = "get_failing_tests" -> {"builds"}
      [] tool = "get_build_details" ->
            {"build", "configure", "test", "previousbuild", "update"}
      [] tool = "get_build_errors" -> {"errors"}
      [] tool = "get_build_tests" -> {"tests"}
      [] tool = "get_configure_output" -> {"configures"}
      [] tool = "get_test_details" -> {"test"}
      [] tool = "get_test_summary" ->
            IF i = 1 THEN {"projectid"}
            ELSE {"numfailed", "numtotal", "percentagepassed", "builds"}
      [] tool = "get_build_update" -> {"update", "updategroups"}
      [] tool = "get_project_overview" ->
            {"title", "hasSubProjects", "groups", "coverages", "dynamicanalyses",
             "staticanalyses", "measurements"}
      [] tool = "get_coverage_comparison" ->
            {"iTotalRecords", "iTotalDisplayRecords", "aaData"}
      [] tool = "get_dynamic_analysis" ->
            {"title", "build", "defecttypes", "dynamicanalyses"}

\* every answer is a 2xx JSON object, and the last one lacks a field
AnswersLackFields ==
    \A i \in 1..Len(replies) :
        /\ IsJsonAnswer(replies[i])
        /\ i = Len(replies) => ExpectedFields(i) \ DOMAIN replies[i].body # {}

(* C20: a call whose requests are all answered 2xx with a JSON object, the   *)
(* last of them an object from which expected fields are absent (the empty   *)
(* object included), returns a text and raises nothing.                      *)
C20_AbsentFieldsTolerated ==
    (Done /\ tool \in Tools /\ AnswersLackFields) => result.kind = "text"


-----------------------------------------------------------------------------
(* The Authorization header *)

(* C21: while the session is open, and so whenever a request is in flight,   *)
(* its headers carry Authorization: Bearer <token> exactly when a non-empty  *)
(* token is configured; with no token or an empty one there is no            *)
(* Authorization header; the headers are set when the session is created and *)
(* do not change as long as it is open.                                      *)
C21_BearerHeader ==
    /\ [](session = "open"
            => /\ "Authorization" \in DOMAIN headers
                    <=> token \notin {<<>>, <<"">>}
               /\ "Authorization" \in DOMAIN headers
                    => headers["Authorization"] = "Bearer " \o token[1])
    /\ [](sent # <<>> /\ pc = "awaiting" => session = "open")
    /\ [][session = "open" /\ session' = "open" => headers' = headers]_vars
    /\ [][token' = token]_vars

\* a request is in flight on a session created with the token "s3cret"
C21_Witness ==
    /\ session = "open" /\ pc = "awaiting" /\ Len(sent) = 1 /\ replies = <<>>
    /\ token = <<"s3cret">>
    /\ headers = ("Authorization" :> "Bearer s3cret")


-----------------------------------------------------------------------------
(* The dashboard, group by group *)

\* the positions of the group headers in the rendered text
GroupStarts ==
    SelectSeq([i \in 1..Len(result.lines) |-> i],
              LAMBDA i : result.lines[i].k = "group")

\* the lines of the g-th group: from its header up to the next header
SegmentOf(g) ==
    SubSeq(result.lines, GroupStarts[g],
           IF g < Len(GroupStarts) THEN GroupStarts[g + 1] - 1
           ELSE Len(result.lines))

\* the K of the summary line of the g-th group, 0 when it has none
MoreOf(g) ==
    LET m == LinesOfKind(SegmentOf(g), "more")
    IN  IF m = <<>> THEN 0 ELSE m[1].n

GroupsAnswered == 1..Len(DictGet(LastReply.body, "buildgroups", <<>>))

(* C22: in the dashboard, for every group, the number of build lines listed  *)
(* plus the K of its '... and K more builds' line equals the number of       *)
(* builds of the group; the group has that line (once) exactly when at least *)
(* one of its builds is not listed.                                          *)
C22_ListedPlusMore ==
    DashRendered
        => /\ Len(GroupStarts) = Len(DictGet(LastReply.body, "buildgroups", <<>>))
           /\ \A g \in GroupsAnswered :
                /\ Len(LinesOfKind(SegmentOf(g), "build")) + MoreOf(g)
                        = Len(BuildsOf(g))
                /\ Len(LinesOfKind(SegmentOf(g), "more")) <= 1
                /\ LinesOfKind(SegmentOf(g), "more") # <<>>
                        <=> \E p \in 1..Len(BuildsOf(g)) : ~Listed(BuildsOf(g)[p])
                /\ \A i \in 1..Len(LinesOfKind(SegmentOf(g), "build")) :
                        \E p \in 1..Len(BuildsOf(g)) :
                            LinesOfKind(SegmentOf(g), "build")[i].id
                                = BuildsOf(g)[p]["id"]

\* two groups: the first lists 20 of its 21 builds and says '1 more', the
\* second lists its one build and has no summary line
C22_Witness ==
    /\ DashRendered
    /\ Len(DictGet(LastReply.body, "buildgroups", <<>>)) = 2
    /\ Len(BuildsOf(1)) = 21
    /\ Len(LinesOfKind(SegmentOf(1), "build")) = 20
    /\ MoreOf(1) = 1
    /\ Len(BuildsOf(2)) = 1
    /\ Len(LinesOfKind(SegmentOf(2), "build")) = 1
    /\ LinesOfKind(SegmentOf(2), "more") = <<>>

\* the six counters of a build line: the name it is given, where it is read
ClaimedCounters ==
    {<<"configure_err", "configure", "error">>,
     <<"compile_err", "compilation", "error">>,
     <<"warnings", "compilation", "warning">>,
     <<"test_fail", "test", "fail">>,
     <<"test_notrun", "test", "notrun">>,
     <<"test_pass", "test", "pass">>}

\* the value of a counter of the answer, 0 when the counter is absent
CountOf(build, c) ==
    IF c[2] \in DOMAIN build /\ c[3] \in DOMAIN build[c[2]]
    THEN build[c[2]][c[3]] ELSE 0

\* the line names the counter with its value
Names(line, build, c) ==
    \E i \in 1..Len(line.parts) :
        line.parts[i] = [label |-> c[1], value |-> CountOf(build, c)]

\* the build lines of the g-th group
BuildLinesOf(g) == LinesOfKind(SegmentOf(g), "build")

\* the builds of the g-th group a line is about
BuildsAbout(g, line) ==
    {p \in 1..Len(BuildsOf(g)) : BuildsOf(g)[p]["id"] = line.id}

(* C23: in the dashboard every group header reports the number of builds of  *)
(* its group; the line of a listed build carries the issue marker exactly    *)
(* when one of its configure-error, compile-error, test-fail and test-notrun *)
(* counts is not zero, and it then names each counter that is not zero with  *)
(* its value; the line reports OK exactly when all six counters are zero or  *)
(* absent.                                                                   *)
C23_BuildLines ==
    DashRendered
        => /\ Len(GroupStarts) = Len(DictGet(LastReply.body, "buildgroups", <<>>))
           /\ \A g \in GroupsAnswered :
                /\ SegmentOf(g)[1].builds = Len(BuildsOf(g))
                /\ SegmentOf(g)[1].name
                        = DictGet(LastReply.body, "buildgroups", <<>>)[g]["name"]
                /\ \A i \in 1..Len(BuildLinesOf(g)) :
                    LET line == BuildLinesOf(g)[i]
                    IN  /\ Cardinality(BuildsAbout(g, line)) = 1
                        /\ \A p \in BuildsAbout(g, line) :
                            LET build == BuildsOf(g)[p]
                            IN  /\ line.marker = "!!!" <=> IssueBuild(build)
                                /\ line.marker \in {"!!!", ""}
                                /\ \A c \in ClaimedCounters :
                                      CountOf(build, c) # 0
                                        <=> Names(line, build, c)
                                /\ Len(line.parts)
                                      = Cardinality({c \in ClaimedCounters :
                                                      CountOf(build, c) # 0})
                                /\ line.ok
                                      <=> \A c \in ClaimedCounters :
                                            CountOf(build, c) = 0

\* the example: the group "Nightly" of two builds, one with three failed
\* tests, one without any count that is not zero
C23_Witness ==
    /\ DashRendered
    /\ LastReply.body = SmallDashboard
    /\ LinesOfKind(result.lines, "group")
            = <<[k |-> "group", name |-> "Nightly", builds |-> 2]>>
    /\ Len(BuildLinesOf(1)) = 2
    /\ BuildLinesOf(1)[1].marker = "!!!"
    /\ \E i \in 1..Len(BuildLinesOf(1)[1].parts) :
            BuildLinesOf(1)[1].parts[i] = [label |-> "test_fail", value |-> 3]
    /\ ~BuildLinesOf(1)[1].ok
    /\ BuildLinesOf(1)[2].marker = ""
    /\ BuildLinesOf(1)[2].ok

-----------------------------------------------------------------------------
(* Walking the pages *)

RECURSIVE NamesOfCalls(_)
\* the names of the entries the calls left behind rendered, call after call
NamesOfCalls(cs) ==
    IF cs = <<>> THEN <<>>
    ELSE LET e == LinesOfKind(Head(cs).result.lines, "entry")
         IN  [i \in 1..Len(e) |-> e[i].name] \o NamesOfCalls(Tail(cs))

\* the names rendered by the walk up to and with the call that just finished
WalkNames == NamesOfCalls(calls) \o EntryNames

\* the calls of the walk made so far
WalkCalls == Len(calls) + 1

\* ceil(n / l)
CeilDiv(n, l) == (n + l - 1) \div l

\* a page of the walk has been rendered
WalkRendered == Rendered /\ tool \in WalkTools /\ args.offset >= 0

(* C24: a caller who starts at offset 0 and calls again with the offset the  *)
(* trailer names, the list of N > 0 items and the effective limit L staying  *)
(* the same, is shown after k calls the first min(N, k * L) items, each once *)
(* and in the order of the list; the page of call k has a trailer exactly    *)
(* when k < ceil(N / L), so the walk ends with a page without trailer after  *)
(* exactly ceil(N / L) calls, all items shown.                               *)
C24_WalkCoversList ==
    (WalkRendered /\ Len(SourceList) > 0)
        => LET n == Len(SourceList)
               k == WalkCalls
           IN  /\ args.offset = (k - 1) * EffLimit
               /\ WalkNames
                    = [i \in 1..Min(n, k * EffLimit) |-> SourceList[i][NameKey]]
               /\ HasLine("trailer") <=> k < CeilDiv(n, EffLimit)
               /\ ~HasLine("trailer")
                    => /\ k = CeilDiv(n, EffLimit)
                       /\ Len(WalkNames) = n
               /\ ~HasLine("norange")

\* five items by pages of two: the third call shows the fifth item and has
\* no trailer
C24_Witness ==
    /\ WalkRendered
    /\ Len(SourceList) = 5 /\ EffLimit = 2
    /\ WalkCalls = 3
    /\ args.offset = 4
    /\ ~HasLine("trailer")
    /\ WalkNames = [i \in 1..5 |-> SourceList[i][NameKey]]
    /\ \A c \in 1..2 : TrailerOf(calls[c].result.lines) # <<>>

-----------------------------------------------------------------------------
(* The session handle *)

(* C25: a GET is sent only while the session is open. A call made before     *)
(* __aenter__ or after __aexit__ sends no request and ends with an           *)
(* AssertionError, which is not a CDashError, so the tool raises it and      *)
(* renders no "Error: ..." text; after __aexit__ the handle is None; and     *)
(* __aexit__ on a session that is not open changes nothing of the session.   *)
C25_GetNeedsOpenSession ==
    /\ [][sent' # sent /\ sent' # <<>> => session = "open" /\ session' = "open"]_vars
    /\ []((pc = "done" /\ session # "open")
            => /\ sent = <<>> /\ replies = <<>>
               /\ result.kind = "raised"
               /\ ~IsCDashError(result.exc)
               /\ BindsOk(tool) => result.exc = "AssertionError")
    /\ [](pc = "awaiting" => session = "open")
    /\ [](pc = "exited" => ClientHandle = "None" /\ headers = EmptyObj)
    /\ [][(pc' = "exited" /\ session # "open")
            => session' = session /\ headers' = headers]_vars

\* get_dashboard was called after __aexit__: nothing was sent and the call
\* ended with the AssertionError
C25_Witness ==
    /\ pc = "done" /\ session = "closed"
    /\ tool = "get_dashboard"
    /\ sent = <<>>
    /\ result = RaisedResult("AssertionError")

-----------------------------------------------------------------------------
(* The dynamic analyses, with defects and without *)

\* the analyses of the answer
Analyses == DictGet(LastReply.body, "dynamicanalyses", <<>>)

\* every defect value of the analysis converts to an integer
Converts(a) == \A i \in DOMAIN a["defects"] : a["defects"][i].conv

\* the analyses the claim puts in the list: the values convert, their sum > 0
Defective == {i \in 1..Len(Analyses) :
                Converts(Analyses[i]) /\ SumDefects(Analyses[i]["defects"]) > 0}

\* the analyses the claim counts as clean: the sum is 0 or a value does not
\* convert
CountedClean == {i \in 1..Len(Analyses) :
                    \/ ~Converts(Analyses[i])
                    \/ SumDefects(Analyses[i]["defects"]) = 0}

\* the with-defects total the text gives, 0 when it gives none
TotalShown ==
    LET r == LinesOfKind(result.lines, "range") \o LinesOfKind(result.lines, "norange")
    IN  IF r = <<>> THEN 0 ELSE r[1].total

\* the clean count the text gives, 0 when it gives none
CleanShown ==
    LET c == LinesOfKind(result.lines, "clean")
    IN  IF c = <<>> THEN 0 ELSE c[1].n

DynRendered == Rendered /\ tool = "get_dynamic_analysis" /\ Analyses # <<>>

(* C26 as claimed: every analysis is counted once, in the list of those with *)
(* defects or in the clean count; the two add up to the number of the        *)
(* results header; and the clean count is reported on every page.            *)
C26_CleanOnEveryPage ==
    DynRendered
        => /\ Defective \cap CountedClean = {}
           /\ Defective \cup CountedClean = 1..Len(Analyses)
           /\ LinesOfKind(result.lines, "results")
                = <<[k |-> "results", total |-> Len(Analyses)]>>
           /\ TotalShown + CleanShown = Len(Analyses)
           /\ LinesOfKind(result.lines, "clean")
                = <<[k |-> "clean", n |-> Cardinality(CountedClean)]>>

(* C26 as amended: every analysis is counted once, in the list of those with *)
(* defects (its values convert and their sum is > 0) or in the clean count   *)
(* (the sum is 0 or a value does not convert); the with-defects total and    *)
(* the clean count add up to the number of the results header, a count of 0  *)
(* having no line; only analyses with defects are listed; and a clean count  *)
(* that is not 0 is on every page, whatever offset and limit, also on the    *)
(* page past the end.                                                        *)
C26_CountedOnce ==
    DynRendered
        => /\ Defective \cap CountedClean = {}
           /\ Defective \cup CountedClean = 1..Len(Analyses)
           /\ LinesOfKind(result.lines, "results")
                = <<[k |-> "results", total |-> Len(Analyses)]>>
           /\ TotalShown = Cardinality(Defective)
           /\ CleanShown = Cardinality(CountedClean)
           /\ TotalShown + CleanShown = Len(Analyses)
           /\ LinesOfKind(result.lines, "clean")
                = IF CountedClean = {} THEN <<>>
                  ELSE <<[k |-> "clean", n |-> Cardinality(CountedClean)]>>
           /\ HasLine("range") \/ HasLine("norange") <=> Defective # {}
           /\ \A i \in 1..Len(EntryNames) :
                \E j \in Defective : Analyses[j]["name"] = EntryNames[i]
           /\ Len(EntryNames)
                = Max(0, Min(EffLimit, Cardinality(Defective) - EffOffset))

\* three analyses, one with defects, one without, one whose values do not
\* convert, and a page past the end: the total 1 and the clean count 2
C26_Witness ==
    /\ DynRendered
    /\ Len(Analyses) = 3
    /\ Cardinality(Defective) = 1
    /\ \E i \in CountedClean : ~Converts(Analyses[i])
    /\ \E i \in CountedClean : Converts(Analyses[i])
    /\ EffOffset >= 1
    /\ LinesOfKind(result.lines, "norange")
            = <<[k |-> "norange", total |-> 1, offset |-> EffOffset]>>
    /\ LinesOfKind(result.lines, "clean") = <<[k |-> "clean", n |-> 2]>>
    /\ EntryNames = <<>>

=============================================================================
